---------------------------- MODULE Spec2Model ----------------------------
(***************************************************************************)
(* Model of the model-call orchestration engine of argus-mcp               *)
(* (src/models.py): the diagnostics log, the retry loop of                 *)
(* ModelProvider._call_api_with_retry, ModelProvider.verify_code, the      *)
(* provider cache of ModelManager.get_provider and the fallback sweep of   *)
(* ModelManager.verify_with_fallback, as MCPServer._verify_code            *)
(* (src/server_v2.py) calls them, with or without fallback, around the     *)
(* result cache.                                                           *)
(*                                                                         *)
(* The code runs on one asyncio event loop: a task runs without            *)
(* interruption until it awaits the network call (client.post) or the      *)
(* backoff sleep (asyncio.sleep).  The variable running names the task     *)
(* that holds the loop; the steps of a task between two suspension points  *)
(* are taken while it holds the loop, so no other task interleaves there.  *)
(*                                                                         *)
(* HTTP status codes are written as strings ("401"), the absent value      *)
(* None as "None": error_code holds a status, "TIMEOUT",                   *)
(* "CONNECTION_ERROR" or None in the code.                                 *)
(***************************************************************************)
EXTENDS Integers, Sequences, FiniteSets, TLC

----------------------------------------------------------------------------
(* config.py (imported at models.py:10-14; the file is not in src/)        *)

\* MODELS: the registry, in declaration order
ModelOrder == <<"glm-4.7", "gemini-flash", "minimax">>

ModelKeys == {ModelOrder[i] : i \in 1..Len(ModelOrder)}

\* a key that is not in MODELS
UnknownKey == "no-such-model"

RETRY_ATTEMPTS == 3

RETRY_MIN_WAIT == 2

RETRY_MAX_WAIT == 3

RETRY_STATUS_CODES == {"429", "500", "502", "503", "504"}

\* models.py:32, the cap of _error_log
LOG_MAX == 50

\* models.py:27, details[:500]
DETAILS_MAX == 500

----------------------------------------------------------------------------
(* Bounds of the model                                                     *)

\* log_error calls made by the diagnostics-log specification
MaxRecords == 55

\* log_error calls made while a caller holds and changes a returned list
MaxCopyRecords == 3

\* the longest list a caller makes of a returned list
MaxSnapshot == 3

Tasks == {"t1", "t2"}

NoTask == "none"

None == "None"

----------------------------------------------------------------------------
VARIABLES
    enabled,          \* MODELS[k]["enabled"], fixed when config is imported
    network,          \* what the models' endpoints can answer in this run
    use_fallback,     \* arguments.get("use_fallback", True)
    use_cache,        \* arguments.get("use_cache", True)
    cache,            \* the result cache, for the arguments of the requests
    reply,            \* what _verify_code returned
    met,              \* history: the requests in backoff when this one arrived
    total_calls,      \* history: _call_api calls made for the request
    cache_ops,        \* history: the cache operations of the request
    aliased,          \* the list in snapshot is the list object _error_log
    provider,         \* the local provider: what get_provider returned
    error_log,        \* _error_log
    clock,            \* datetime.now(), as the number of entries logged so far
    snapshot,         \* the list last returned by get_error_log
    recorded,         \* history: every entry logged since the last clear
    providers,        \* ModelManager._providers: cached key -> ModelProvider
    constructed,      \* history: ModelProvider objects whose __init__ returned
    running,          \* the task that holds the event loop, or NoTask
    pc,               \* where each task is
    primary_model,    \* verify_with_fallback's argument
    model_key,        \* the model being resolved / called
    fallback_models,  \* get_fallback_models(exclude=primary_model)
    fb_idx,           \* position of the for loop in fallback_models; 0: primary
    errors_collected, \* verify_with_fallback's local list
    attempt,          \* _call_api_with_retry's loop variable
    last_error,       \* _call_api_with_retry's local
    response,         \* what the awaited _call_api produced (data or exception)
    exc,              \* the exception that is propagating
    wait_time,        \* the argument of asyncio.sleep
    vc_result,        \* what verify_code returned
    result,           \* what verify_with_fallback returned
    outcomes,         \* history: what the calls of the current retry loop produced
    calls,            \* history: _call_api calls made for model_key
    sleeps,           \* history: the backoff sleeps of the current retry loop
    inflight,         \* history: network calls of the task now in flight
    failed            \* history: models whose attempt ended in failure, in order

envVars  == <<enabled, network>>
srvVars  == <<use_fallback, use_cache, cache, reply, met, total_calls,
              cache_ops>>
snapVars == <<snapshot, aliased>>
logVars  == <<error_log, clock, recorded>>
mgrVars  == <<providers, constructed, provider>>
orchVars == <<primary_model, model_key, fallback_models, fb_idx,
              errors_collected, result, failed>>
retryVars == <<attempt, last_error, response, exc, wait_time, vc_result,
               outcomes, calls, sleeps, inflight>>
vars == <<enabled, error_log, clock, snapshot, recorded, providers,
          constructed, running, pc, primary_model, model_key,
          fallback_models, fb_idx, errors_collected, attempt, last_error,
          response, exc, wait_time, vc_result, result, outcomes, calls,
          sleeps, inflight, failed, network, use_fallback, use_cache, cache,
          reply, met, total_calls, cache_ops, aliased, provider>>

----------------------------------------------------------------------------
(* Values                                                                  *)

Min(a, b) == IF a < b THEN a ELSE b

RECURSIVE Pow2(_)
Pow2(n) == IF n = 0 THEN 1 ELSE 2 * Pow2(n - 1)

\* no exception / no response
NoExc == [type |-> None, name |-> None, status |-> None, text |-> ""]

\* What one awaited _call_api can produce: the parsed JSON of a 2xx response
\* ("data": with choices[0].message.content; "malformed": without it), or an
\* exception: raise_for_status()'s HTTPStatusError (with the response's
\* status and body), a timeout, a connect error, or anything else.
HttpError(status, body) ==
    [type |-> "HTTPStatusError", name |-> "HTTPStatusError",
     status |-> status, text |-> body]

\* a dict without keys
EmptyDict == [key \in {} |-> 0]

\* d.get(key, default)
DictGet(d, key, default) == IF key \in DOMAIN d THEN d[key] ELSE default

\* a 200 body with choices[0].message.content; has_usage: the body has the
\* key "usage", and usage is its value
Data(has_usage, usage) ==
    [type |-> "data", name |-> None, status |-> "200", text |-> "LGTM",
     has_usage |-> has_usage, usage |-> usage]

\* data.get("usage", {}) (models.py:188-189)
DataUsage(data) == IF data.has_usage THEN data.usage ELSE EmptyDict

Outcomes ==
    { Data(TRUE, "total_tokens" :> 2000),
      [type |-> "malformed", name |-> "KeyError", status |-> "200",
       text |-> "'choices'"],
      HttpError("401", "Unauthorized"),
      HttpError("429", "Too Many Requests"),
      HttpError("504", "Gateway Timeout"),
      [type |-> "TimeoutException", name |-> "ReadTimeout", status |-> None,
       text |-> "The read operation timed out"],
      [type |-> "ConnectError", name |-> "ConnectError", status |-> None,
       text |-> "All connection attempts failed"],
      [type |-> "Exception", name |-> "RemoteProtocolError", status |-> None,
       text |-> "Server disconnected"] }

IsData(r) == r.type \in {"data", "malformed"}

\* asyncio.CancelledError, raised in a task that is cancelled while it awaits;
\* it derives from BaseException, not from Exception
Cancelled ==
    [type |-> "CancelledError", name |-> "CancelledError", status |-> None,
     text |-> ""]

\* except httpx.HTTPError for except Exception
CaughtHttpxOnly(e) ==
    e.type \in {"HTTPStatusError", "TimeoutException", "ConnectError"}

\* except BaseException for except Exception
CaughtEverything(e) == TRUE

\* except Exception (models.py:123, 238, 299, 327) catches e
CaughtByException(e) == e.type # "CancelledError"

----------------------------------------------------------------------------
(* Diagnostics log                                                         *)

\* details[-500:]: the end of the text is kept
TruncateTail(details, n) ==
    IF Len(details) > n
    THEN SubSeq(details, Len(details) - n + 1, Len(details))
    ELSE details

\* details[:500]
Truncate(details, n) ==
    IF Len(details) > n THEN SubSeq(details, 1, n) ELSE details

\* a cap checked one entry late
EvictLate(log) == IF Len(log) > LOG_MAX + 1 THEN Tail(log) ELSE log

\* pop() for pop(0): the newest entry is dropped
EvictNewest(log) ==
    IF Len(log) > LOG_MAX THEN SubSeq(log, 1, Len(log) - 1) ELSE log

\* models.py:32-33: if len(_error_log) > 50: _error_log.pop(0)
Evict(log) == IF Len(log) > LOG_MAX THEN Tail(log) ELSE log

LogEntry(model, error_type, details, status_code) ==
    [timestamp |-> clock,
     model |-> model,
     error_type |-> error_type,
     details |-> Truncate(details, DETAILS_MAX),
     status_code |-> status_code]

\* log_error(model, error_type, details, status_code)
LogError(model, error_type, details, status_code) ==
    LET entry == LogEntry(model, error_type, details, status_code) IN
    /\ error_log' = Evict(Append(error_log, entry))
    /\ snapshot' = IF aliased THEN error_log' ELSE snapshot
    /\ clock' = clock + 1
    /\ recorded' = Append(recorded, entry)

----------------------------------------------------------------------------
(* Text                                                                    *)

LowerChar(c) ==
    CASE c = "A" -> "a" [] c = "B" -> "b" [] c = "C" -> "c" [] c = "D" -> "d"
      [] c = "E" -> "e" [] c = "F" -> "f" [] c = "G" -> "g" [] c = "H" -> "h"
      [] c = "I" -> "i" [] c = "J" -> "j" [] c = "K" -> "k" [] c = "L" -> "l"
      [] c = "M" -> "m" [] c = "N" -> "n" [] c = "O" -> "o" [] c = "P" -> "p"
      [] c = "Q" -> "q" [] c = "R" -> "r" [] c = "S" -> "s" [] c = "T" -> "t"
      [] c = "U" -> "u" [] c = "V" -> "v" [] c = "W" -> "w" [] c = "X" -> "x"
      [] c = "Y" -> "y" [] c = "Z" -> "z" [] OTHER -> c

\* word in text.lower(), for a word in lower case
ContainsLower(text, word) ==
    \E i \in 1..(Len(text) - Len(word) + 1) :
        \A j \in 1..Len(word) :
            LowerChar(SubSeq(text, i + j - 1, i + j - 1)) = SubSeq(word, j, j)

\* " ".join(texts)
RECURSIVE JoinSpace(_)
JoinSpace(texts) ==
    IF Len(texts) = 0 THEN ""
    ELSE IF Len(texts) = 1 THEN texts[1]
    ELSE texts[1] \o " " \o JoinSpace(Tail(texts))

----------------------------------------------------------------------------
(* ModelProvider.__init__ and ModelManager.get_provider                    *)

ValueError(msg) ==
    [type |-> "Exception", name |-> "ValueError", status |-> None,
     text |-> msg]

\* __init__ without the check of config["enabled"]
ProviderInitErrorUnknownOnly(k) ==
    IF k \notin ModelKeys THEN ValueError("Unknown model: " \o k) ELSE NoExc

\* models.py:87-92: the two checks of __init__; NoExc when it returns
ProviderInitError(k) ==
    IF k \notin ModelKeys THEN ValueError("Unknown model: " \o k)
    ELSE IF ~enabled[k]
        THEN ValueError("Model " \o k \o " is not enabled (missing API key)")
    ELSE NoExc

\* the cache of providers is never consulted
CachedNever(k) == FALSE

\* models.py:271: model_key not in self._providers is false
Cached(k) == k \in DOMAIN providers

\* get_fallback_models(exclude): the enabled models but exclude, in
\* registry order
get_fallback_models(exclude) ==
    SelectSeq(ModelOrder, LAMBDA k : enabled[k] /\ k # exclude)

\* while True
LoopContinuesForever(a) == TRUE

\* range(RETRY_ATTEMPTS + 1)
LoopContinuesOneMore(a) == a < RETRY_ATTEMPTS + 1

\* range(RETRY_ATTEMPTS) has a next value
LoopContinues(a) == a < RETRY_ATTEMPTS

\* every HTTP status is retried
IsRetryableAlways(status) == TRUE

\* e.response.status_code not in RETRY_STATUS_CODES is false
IsRetryable(status) == status \in RETRY_STATUS_CODES

\* if attempt < RETRY_ATTEMPTS - 1
SleepsAfter(a) == a < RETRY_ATTEMPTS - 1

\* the wait doubles without a cap
BackoffUncapped(a) == RETRY_MIN_WAIT * Pow2(a)

\* min(RETRY_MIN_WAIT * (2 ** attempt), RETRY_MAX_WAIT)
Backoff(a) == Min(RETRY_MIN_WAIT * Pow2(a), RETRY_MAX_WAIT)

----------------------------------------------------------------------------
(* Results                                                                 *)

\* MODELS[k].get("cost_per_1k_tokens", 0.0), in thousandths of the currency
\* unit; the last model of the registry has no such key
CostPer1k == (ModelOrder[1] :> 400) @@ (ModelOrder[2] :> 75)

\* total_tokens // 1000, in thousandths
FloorDiv1000(n) == (n \div 1000) * 1000

\* total_tokens / 1000 (models.py:260), in thousandths: the division is
\* exact
TrueDiv1000(n) == n

\* _calculate_cost (models.py:252-260); the result is in millionths of the
\* currency unit: thousandths of thousands of tokens times thousandths per
\* thousand tokens
calculate_cost(k, usage) ==
    IF DOMAIN usage = {}
    THEN 0
    ELSE TrueDiv1000(DictGet(usage, "total_tokens", 0))
             * DictGet(CostPer1k, k, 0)

\* the dict verify_code returns on success (models.py:183-190)
SuccessResult(k, data) ==
    [success |-> TRUE, verdict |-> data.text, model_key |-> k,
     error |-> "", error_code |-> None,
     fallback_used |-> FALSE, primary_model_failed |-> None,
     errors |-> <<>>, recommendations |-> <<>>,
     tokens_used |-> DataUsage(data),
     cost |-> calculate_cost(k, DataUsage(data))]

\* the dicts verify_code returns on failure (models.py:200-250)
FailureResult(k, error_msg, error_code) ==
    [success |-> FALSE, verdict |-> "", model_key |-> k,
     error |-> error_msg, error_code |-> error_code,
     fallback_used |-> FALSE, primary_model_failed |-> None,
     errors |-> <<>>, recommendations |-> <<>>]

NoResult == FailureResult(None, "", None)

\* what _verify_code returns: the result, with from_cache set on a cache hit
\* (server_v2.py:333)
Reply(res, from_cache) == [result |-> res, from_cache |-> from_cache]

NoReply == Reply(NoResult, FALSE)

\* no ModelProvider
NoProvider == [model_key |-> None, oid |-> 0]

\* primary_model_failed names the model that answered
WithFallbackAnswering(res, primary) ==
    [res EXCEPT !.fallback_used = TRUE, !.primary_model_failed = res.model_key]

\* models.py:316-318: the fallback metadata set on a fallback's success
WithFallback(res, primary) ==
    [res EXCEPT !.fallback_used = TRUE, !.primary_model_failed = primary]

\* the entry of errors_collected (models.py:293-297, 302-305)
Collected(k, error_msg, error_code) ==
    [model |-> k, error |-> error_msg, error_code |-> error_code]

\* type(e).__name__ alone
ExcMessageNameOnly(e) == e.name

\* type(e).__name__: str(e)
ExcMessage(e) == e.name \o ": " \o e.text

\* models.py:343: the error codes that are truthy
ErrorCodes(errs) ==
    {errs[i].error_code : i \in {j \in 1..Len(errs) : errs[j].error_code # None}}

\* models.py:344, before .lower()
ErrorTexts(errs) ==
    JoinSpace([i \in 1..Len(errs) |-> errs[i].error])

HintCredential == "Check API keys in .env file"
HintRateLimit == "Rate limited - wait a few minutes"
HintTimeout == "Timeout - try smaller code or wait"
HintConnection == "Network error - check connection"
HintStatus == "Check API provider status pages"
HintCredits == "Verify API keys have credits"

\* only the first collected failure is looked at
HasCredentialCauseFirst(errs) ==
    Len(errs) > 0 /\ errs[1].error_code = "401"

\* models.py:346: if 401 in error_codes
HasCredentialCause(errs) == "401" \in ErrorCodes(errs)

\* the credential hint is appended once for each failure with code 401
RecommendationsRepeated(errs) ==
    LET unauthorized == {i \in 1..Len(errs) : errs[i].error_code = "401"}
        specific ==
            [i \in 1..Cardinality(unauthorized) |-> HintCredential]
         \o (IF "429" \in ErrorCodes(errs) THEN <<HintRateLimit>> ELSE <<>>)
         \o (IF ContainsLower(ErrorTexts(errs), "timeout")
                THEN <<HintTimeout>> ELSE <<>>)
         \o (IF ContainsLower(ErrorTexts(errs), "connect")
                THEN <<HintConnection>> ELSE <<>>)
    IN  IF specific = <<>> THEN <<HintStatus, HintCredits>> ELSE specific

\* an if / elif chain: only the first cause that matches gives its hint
RecommendationsFirstOnly(errs) ==
    IF HasCredentialCause(errs) THEN <<HintCredential>>
    ELSE IF "429" \in ErrorCodes(errs) THEN <<HintRateLimit>>
    ELSE IF ContainsLower(ErrorTexts(errs), "timeout") THEN <<HintTimeout>>
    ELSE IF ContainsLower(ErrorTexts(errs), "connect") THEN <<HintConnection>>
    ELSE <<HintStatus, HintCredits>>

\* models.py:342-356
Recommendations(errs) ==
    LET specific ==
            (IF HasCredentialCause(errs) THEN <<HintCredential>> ELSE <<>>)
         \o (IF "429" \in ErrorCodes(errs) THEN <<HintRateLimit>> ELSE <<>>)
         \o (IF ContainsLower(ErrorTexts(errs), "timeout")
                THEN <<HintTimeout>> ELSE <<>>)
         \o (IF ContainsLower(ErrorTexts(errs), "connect")
                THEN <<HintConnection>> ELSE <<>>)
    IN  IF specific = <<>> THEN <<HintStatus, HintCredits>> ELSE specific

\* models.py:358-366
AllFailedResult(errs) ==
    [success |-> FALSE, verdict |-> "", model_key |-> None,
     error |-> "All models failed", error_code |-> None,
     fallback_used |-> FALSE, primary_model_failed |-> None,
     errors |-> errs, recommendations |-> Recommendations(errs)]

----------------------------------------------------------------------------
(* ModelProvider.verify_code: the except clauses, in their order           *)

\* models.py:192, 208, 223, 238: one of the four clauses catches e
VerifyCatches(e) ==
    \/ e.type \in {"HTTPStatusError", "TimeoutException", "ConnectError"}
    \/ CaughtByException(e)

\* models.py:192-250: what each clause logs and returns
VerifyFailure(e) ==
    IF e.type = "HTTPStatusError" THEN
        [error_type |-> "HTTP Error",
         error_msg |-> "API Error: " \o e.status \o " - "
                       \o Truncate(e.text, 300),
         status_code |-> e.status, error_code |-> e.status]
    ELSE IF e.type = "TimeoutException" THEN
        [error_type |-> "Timeout",
         error_msg |-> "Request timed out after 60s",
         status_code |-> None, error_code |-> "TIMEOUT"]
    ELSE IF e.type = "ConnectError" THEN
        [error_type |-> "Connection Error",
         error_msg |-> "Connection failed: " \o e.text,
         status_code |-> None, error_code |-> "CONNECTION_ERROR"]
    ELSE
        [error_type |-> e.name,
         error_msg |-> ExcMessage(e),
         status_code |-> None, error_code |-> None]

----------------------------------------------------------------------------
(* The steps of one request                                                *)

Set(f, t, v) == [f EXCEPT ![t] = v]

\* history: the attempt of model k ended with exception e: raised by
\* get_provider ("resolve"), by _call_api_with_retry ("retry"), or by
\* verify_code reading the response ("response")
Failed(t, k, how, e) ==
    Set(failed, t,
        Append(failed[t], [model |-> k, how |-> how, status |-> e.status]))

\* _verify_code(arguments) is called (server_v2.py:315-355): the arguments
\* are read, a cached result is returned if there is one, else the model is
\* called, through verify_with_fallback (models.py:275-287) or directly
Start(t) ==
    /\ running = NoTask
    /\ pc[t] = "idle"
    /\ \E p \in ModelKeys \cup {UnknownKey}, uc \in BOOLEAN, uf \in BOOLEAN :
        /\ primary_model' = Set(primary_model, t, p)
        /\ model_key' = Set(model_key, t, p)
        /\ use_cache' = Set(use_cache, t, uc)
        /\ use_fallback' = Set(use_fallback, t, uf)
        /\ IF uc /\ p \in DOMAIN cache
           THEN /\ reply' = Set(reply, t, Reply(cache[p], TRUE))
                /\ pc' = Set(pc, t, "replied")
                /\ UNCHANGED running
           ELSE /\ pc' = Set(pc, t, "resolve")
                /\ running' = t
                /\ UNCHANGED reply
        /\ cache_ops' = Set(cache_ops, t, IF uc THEN <<"get">> ELSE <<>>)
    /\ met' = Set(met, t, {u \in Tasks : pc[u] = "sleeping"})
    /\ errors_collected' = Set(errors_collected, t, <<>>)
    /\ fb_idx' = Set(fb_idx, t, 0)
    /\ UNCHANGED <<envVars, cache, total_calls, logVars, snapVars, mgrVars,
                   fallback_models, result, failed, retryVars>>

\* the loop counter is kept on the provider: entering the loop resets it
\* for every request that uses the provider
ResolveSharedCounter(t) ==
    /\ running = t
    /\ pc[t] = "resolve"
    /\ LET k == model_key[t]
           e == ProviderInitError(k)
       IN  IF Cached(k) \/ e = NoExc
           THEN /\ IF Cached(k)
                   THEN /\ provider' = Set(provider, t, providers[k])
                        /\ UNCHANGED <<providers, constructed>>
                   ELSE LET new == [model_key |-> k, oid |-> constructed + 1]
                        IN  /\ providers' = (k :> new) @@ providers
                            /\ constructed' = constructed + 1
                            /\ provider' = Set(provider, t, new)
                /\ attempt' =
                       [u \in Tasks |->
                           IF u = t \/ provider[u].model_key = k
                           THEN 0 ELSE attempt[u]]
                /\ last_error' = Set(last_error, t, NoExc)
                /\ pc' = Set(pc, t, "attempt")
                /\ UNCHANGED <<exc, failed>>
           ELSE /\ exc' = Set(exc, t, e)
                /\ failed' = Failed(t, k, "resolve", e)
                /\ pc' = Set(pc, t, "orch_except")
                /\ UNCHANGED <<mgrVars, attempt, last_error>>
    /\ UNCHANGED <<envVars, srvVars, logVars, snapVars, running, primary_model,
                   model_key, fallback_models, fb_idx, errors_collected,
                   result, response, wait_time, vc_result, outcomes, calls,
                   sleeps, inflight>>

\* self.get_provider(model_key), models.py:269-273, then the entry of
\* verify_code and of _call_api_with_retry (models.py:104)
Resolve(t) ==
    /\ running = t
    /\ pc[t] = "resolve"
    /\ LET k == model_key[t]
           e == ProviderInitError(k)
       IN  IF Cached(k) \/ e = NoExc
           THEN /\ IF Cached(k)
                   THEN /\ provider' = Set(provider, t, providers[k])
                        /\ UNCHANGED <<providers, constructed>>
                   ELSE LET new == [model_key |-> k, oid |-> constructed + 1]
                        IN  /\ providers' = (k :> new) @@ providers
                            /\ constructed' = constructed + 1
                            /\ provider' = Set(provider, t, new)
                /\ attempt' = Set(attempt, t, 0)
                /\ last_error' = Set(last_error, t, NoExc)
                /\ pc' = Set(pc, t, "attempt")
                /\ UNCHANGED <<exc, failed>>
           ELSE /\ exc' = Set(exc, t, e)
                /\ failed' = Failed(t, k, "resolve", e)
                /\ pc' = Set(pc, t, "orch_except")
                /\ UNCHANGED <<mgrVars, attempt, last_error>>
    /\ UNCHANGED <<envVars, srvVars, logVars, snapVars, running, primary_model,
                   model_key, fallback_models, fb_idx, errors_collected,
                   result, response, wait_time, vc_result, outcomes, calls,
                   sleeps, inflight>>

\* the wait blocks the thread: the task keeps the event loop
AwaitBlocking(t) == t

\* await asyncio.sleep(wait_time) (models.py:121) and await client.post(...)
\* (models.py:152) suspend the coroutine: the event loop is free until the
\* awaited thing is done
Await(t) == NoTask

\* models.py:106-108: the loop has a next attempt; await self._call_api(...)
\* suspends the task at client.post (models.py:152)
CallApi(t) ==
    /\ running = t
    /\ pc[t] = "attempt"
    /\ LoopContinues(attempt[t])
    /\ calls' = Set(calls, t, calls[t] + 1)
    /\ inflight' = Set(inflight, t, inflight[t] + 1)
    /\ total_calls' = Set(total_calls, t, total_calls[t] + 1)
    /\ pc' = Set(pc, t, "calling")
    /\ running' = Await(t)
    /\ UNCHANGED <<envVars, use_fallback, use_cache, cache, reply, met,
                   cache_ops, logVars, snapVars, mgrVars, orchVars, attempt,
                   last_error,
                   response, exc, wait_time, vc_result, outcomes, sleeps>>

\* models.py:129: the loop is over, raise last_error (raise None is a
\* TypeError)
LoopExhausted(t) ==
    /\ running = t
    /\ pc[t] = "attempt"
    /\ ~LoopContinues(attempt[t])
    /\ exc' = Set(exc, t,
                  IF last_error[t] = NoExc
                  THEN [type |-> "Exception", name |-> "TypeError",
                        status |-> None,
                        text |-> "exceptions must derive from BaseException"]
                  ELSE last_error[t])
    /\ failed' = Failed(t, model_key[t], "retry", last_error[t])
    /\ pc' = Set(pc, t, "vc_except")
    /\ UNCHANGED <<envVars, srvVars, logVars, snapVars, mgrVars, running,
                   primary_model, model_key, fallback_models, fb_idx,
                   errors_collected, result, attempt, last_error, response,
                   wait_time, vc_result, outcomes, calls, sleeps,
                   inflight>>

\* the awaited _call_api ends (models.py:152-164): the response's JSON, or
\* an exception
ApiReturn(t) ==
    /\ running = NoTask
    /\ pc[t] = "calling"
    /\ \E o \in network :
        /\ response' = Set(response, t, o)
        /\ outcomes' = Set(outcomes, t, Append(outcomes[t], o))
    /\ inflight' = Set(inflight, t, inflight[t] - 1)
    /\ pc' = Set(pc, t, "returned")
    /\ running' = t
    /\ UNCHANGED <<envVars, srvVars, logVars, snapVars, mgrVars, orchVars, attempt,
                   last_error, exc, wait_time, vc_result, calls, sleeps>>

\* models.py:108-109: return result
RetryReturn(t) ==
    /\ running = t
    /\ pc[t] = "returned"
    /\ IsData(response[t])
    /\ pc' = Set(pc, t, "vc_data")
    /\ UNCHANGED <<envVars, srvVars, logVars, snapVars, mgrVars, running, orchVars,
                   retryVars>>

\* last_error keeps the first failure of the loop
RetryHttpErrorKeepsFirst(t) ==
    /\ running = t
    /\ pc[t] = "returned"
    /\ response[t].type = "HTTPStatusError"
    /\ last_error' = Set(last_error, t,
                         IF last_error[t] = NoExc THEN response[t]
                         ELSE last_error[t])
    /\ IF ~IsRetryable(response[t].status)
       THEN /\ exc' = Set(exc, t, response[t])
            /\ failed' = Failed(t, model_key[t], "retry", response[t])
            /\ pc' = Set(pc, t, "vc_except")
            /\ UNCHANGED <<running, attempt, wait_time, sleeps>>
       ELSE IF SleepsAfter(attempt[t])
       THEN /\ wait_time' = Set(wait_time, t, Backoff(attempt[t]))
            /\ sleeps' = Set(sleeps, t, Append(sleeps[t], Backoff(attempt[t])))
            /\ pc' = Set(pc, t, "sleeping")
            /\ running' = Await(t)
            /\ UNCHANGED <<exc, failed, attempt>>
       ELSE /\ attempt' = Set(attempt, t, attempt[t] + 1)
            /\ pc' = Set(pc, t, "attempt")
            /\ UNCHANGED <<running, exc, failed, wait_time, sleeps>>
    /\ UNCHANGED <<envVars, srvVars, logVars, snapVars, mgrVars,
                   primary_model, model_key, fallback_models, fb_idx,
                   errors_collected, result, response, vc_result, outcomes,
                   calls, inflight>>

\* every failed attempt is written to the log, the retried ones too
RetryHttpErrorLogs(t) ==
    /\ running = t
    /\ pc[t] = "returned"
    /\ response[t].type = "HTTPStatusError"
    /\ LogError(model_key[t], "HTTP Error", response[t].text,
                response[t].status)
    /\ last_error' = Set(last_error, t, response[t])
    /\ IF ~IsRetryable(response[t].status)
       THEN /\ exc' = Set(exc, t, response[t])
            /\ failed' = Failed(t, model_key[t], "retry", response[t])
            /\ pc' = Set(pc, t, "vc_except")
            /\ UNCHANGED <<running, attempt, wait_time, sleeps>>
       ELSE IF SleepsAfter(attempt[t])
       THEN /\ wait_time' = Set(wait_time, t, Backoff(attempt[t]))
            /\ sleeps' = Set(sleeps, t, Append(sleeps[t], Backoff(attempt[t])))
            /\ pc' = Set(pc, t, "sleeping")
            /\ running' = Await(t)
            /\ UNCHANGED <<exc, failed, attempt>>
       ELSE /\ attempt' = Set(attempt, t, attempt[t] + 1)
            /\ pc' = Set(pc, t, "attempt")
            /\ UNCHANGED <<running, exc, failed, wait_time, sleeps>>
    /\ UNCHANGED <<envVars, srvVars, aliased, mgrVars, primary_model,
                   model_key, fallback_models, fb_idx, errors_collected,
                   result, response, vc_result, outcomes, calls,
                   inflight>>

\* models.py:111-121: except httpx.HTTPStatusError
RetryHttpError(t) ==
    /\ running = t
    /\ pc[t] = "returned"
    /\ response[t].type = "HTTPStatusError"
    /\ last_error' = Set(last_error, t, response[t])
    /\ IF ~IsRetryable(response[t].status)
       THEN /\ exc' = Set(exc, t, response[t])
            /\ failed' = Failed(t, model_key[t], "retry", response[t])
            /\ pc' = Set(pc, t, "vc_except")
            /\ UNCHANGED <<running, attempt, wait_time, sleeps>>
       ELSE IF SleepsAfter(attempt[t])
       THEN /\ wait_time' = Set(wait_time, t, Backoff(attempt[t]))
            /\ sleeps' = Set(sleeps, t, Append(sleeps[t], Backoff(attempt[t])))
            /\ pc' = Set(pc, t, "sleeping")
            /\ running' = Await(t)
            /\ UNCHANGED <<exc, failed, attempt>>
       ELSE /\ attempt' = Set(attempt, t, attempt[t] + 1)
            /\ pc' = Set(pc, t, "attempt")
            /\ UNCHANGED <<running, exc, failed, wait_time, sleeps>>
    /\ UNCHANGED <<envVars, srvVars, logVars, snapVars, mgrVars, primary_model,
                   model_key, fallback_models, fb_idx, errors_collected,
                   result, response, vc_result, outcomes, calls,
                   inflight>>

\* the except clause of the retry loop writes the failure to the log before
\* it raises
RetryOtherErrorLogs(t) ==
    /\ running = t
    /\ pc[t] = "returned"
    /\ ~IsData(response[t])
    /\ response[t].type # "HTTPStatusError"
    /\ CaughtByException(response[t])
    /\ LogError(model_key[t], "Retry Error", ExcMessage(response[t]), None)
    /\ last_error' = Set(last_error, t, response[t])
    /\ exc' = Set(exc, t, response[t])
    /\ failed' = Failed(t, model_key[t], "retry", response[t])
    /\ pc' = Set(pc, t, "vc_except")
    /\ UNCHANGED <<envVars, srvVars, aliased, mgrVars, running,
                   primary_model, model_key, fallback_models, fb_idx,
                   errors_collected, result, attempt, response, wait_time,
                   vc_result, outcomes, calls, sleeps, inflight>>

\* models.py:123-126: except Exception: raise
RetryOtherError(t) ==
    /\ running = t
    /\ pc[t] = "returned"
    /\ ~IsData(response[t])
    /\ response[t].type # "HTTPStatusError"
    /\ CaughtByException(response[t])
    /\ last_error' = Set(last_error, t, response[t])
    /\ exc' = Set(exc, t, response[t])
    /\ failed' = Failed(t, model_key[t], "retry", response[t])
    /\ pc' = Set(pc, t, "vc_except")
    /\ UNCHANGED <<envVars, srvVars, logVars, snapVars, mgrVars, running,
                   primary_model, model_key, fallback_models, fb_idx,
                   errors_collected, result, attempt, response, wait_time,
                   vc_result, outcomes, calls, sleeps, inflight>>

\* the task is cancelled while it awaits client.post (models.py:152) or
\* asyncio.sleep (models.py:121): the await raises CancelledError.  In the
\* sleep the task is already inside an except clause of the retry loop,
\* which the exception leaves.
Cancel(t) ==
    /\ running = NoTask
    /\ pc[t] \in {"calling", "sleeping"}
    /\ IF pc[t] = "calling"
       THEN /\ response' = Set(response, t, Cancelled)
            /\ inflight' = Set(inflight, t, inflight[t] - 1)
            /\ pc' = Set(pc, t, "returned")
            /\ UNCHANGED exc
       ELSE /\ exc' = Set(exc, t, Cancelled)
            /\ pc' = Set(pc, t, "vc_except")
            /\ UNCHANGED <<response, inflight>>
    /\ running' = t
    /\ UNCHANGED <<envVars, srvVars, logVars, snapVars, mgrVars, orchVars, attempt,
                   last_error, wait_time, vc_result, outcomes, calls, sleeps>>

\* an exception that no except clause of the frame catches leaves the
\* frame: _call_api_with_retry (models.py:111, 123), verify_code
\* (models.py:192-238), verify_with_fallback (models.py:299, 327);
\* _verify_code has no except clause (server_v2.py:348-355), so what leaves
\* verify_with_fallback, or get_provider on the direct path, leaves the
\* request
Propagate(t) ==
    /\ running = t
    /\ \/ /\ pc[t] = "returned"
          /\ ~IsData(response[t])
          /\ response[t].type # "HTTPStatusError"
          /\ ~CaughtByException(response[t])
          /\ exc' = Set(exc, t, response[t])
          /\ pc' = Set(pc, t, "vc_except")
          /\ UNCHANGED running
       \/ /\ pc[t] = "vc_except"
          /\ ~VerifyCatches(exc[t])
          /\ pc' = Set(pc, t, "orch_except")
          /\ UNCHANGED <<exc, running>>
       \/ /\ pc[t] = "orch_except"
          /\ ~use_fallback[t] \/ ~CaughtByException(exc[t])
          /\ pc' = Set(pc, t, "raised")
          /\ running' = NoTask
          /\ UNCHANGED exc
    /\ UNCHANGED <<envVars, srvVars, logVars, snapVars, mgrVars, orchVars, attempt,
                   last_error, response, wait_time, vc_result, outcomes,
                   calls, sleeps, inflight>>

\* asyncio.sleep(wait_time) is over (models.py:121); the loop goes on
SleepDone(t) ==
    /\ running = NoTask
    /\ pc[t] = "sleeping"
    /\ attempt' = Set(attempt, t, attempt[t] + 1)
    /\ pc' = Set(pc, t, "attempt")
    /\ running' = t
    /\ UNCHANGED <<envVars, srvVars, logVars, snapVars, mgrVars, orchVars, last_error,
                   response, exc, wait_time, vc_result, outcomes, calls,
                   sleeps, inflight>>

\* models.py:181-190: the verdict is read from data; a body without
\* choices[0].message.content raises inside the try of verify_code
VerifyData(t) ==
    /\ running = t
    /\ pc[t] = "vc_data"
    /\ IF response[t].type = "data"
       THEN /\ vc_result' = Set(vc_result, t,
                   SuccessResult(provider[t].model_key, response[t]))
            /\ pc' = Set(pc, t, "orch_result")
            /\ UNCHANGED <<exc, failed>>
       ELSE /\ exc' = Set(exc, t,
                   [type |-> "Exception", name |-> response[t].name,
                    status |-> None, text |-> response[t].text])
            /\ failed' = Failed(t, model_key[t], "response", NoExc)
            /\ pc' = Set(pc, t, "vc_except")
            /\ UNCHANGED vc_result
    /\ UNCHANGED <<envVars, srvVars, logVars, snapVars, mgrVars, running,
                   primary_model, model_key, fallback_models, fb_idx,
                   errors_collected, result, attempt, last_error, response,
                   wait_time, outcomes, calls, sleeps, inflight>>

\* models.py:192-250: the exception of _call_api_with_retry is logged and
\* turned into a failure dict
VerifyExcept(t) ==
    /\ running = t
    /\ pc[t] = "vc_except"
    /\ VerifyCatches(exc[t])
    /\ LET k == provider[t].model_key
           f == VerifyFailure(exc[t])
       IN  /\ LogError(k, f.error_type, f.error_msg, f.status_code)
           /\ vc_result' = Set(vc_result, t,
                               FailureResult(k, f.error_msg, f.error_code))
    /\ pc' = Set(pc, t, "orch_result")
    /\ UNCHANGED <<envVars, srvVars, aliased, mgrVars, running, orchVars, attempt,
                   last_error, response, exc, wait_time, outcomes, calls,
                   sleeps, inflight>>

\* the return on success is missing: the sweep goes on
OrchSuccessContinue(t) ==
    /\ running = t
    /\ pc[t] = "orch_result"
    /\ use_fallback[t]
    /\ vc_result[t].success
    /\ pc' = Set(pc, t, "next")
    /\ UNCHANGED <<envVars, srvVars, logVars, snapVars, mgrVars, running, orchVars,
                   retryVars>>

\* the fallback metadata is set on the primary's success too
OrchSuccessTagged(t) ==
    /\ running = t
    /\ pc[t] = "orch_result"
    /\ use_fallback[t]
    /\ vc_result[t].success
    /\ result' = Set(result, t, WithFallback(vc_result[t], primary_model[t]))
    /\ pc' = Set(pc, t, "done")
    /\ UNCHANGED <<envVars, srvVars, logVars, snapVars, mgrVars, running,
                   primary_model, model_key, fallback_models, fb_idx,
                   errors_collected, failed, retryVars>>

\* models.py:290-291, 315-319: the model answered
OrchSuccess(t) ==
    /\ running = t
    /\ pc[t] = "orch_result"
    /\ use_fallback[t]
    /\ vc_result[t].success
    /\ result' = Set(result, t,
                     IF fb_idx[t] = 0 THEN vc_result[t]
                     ELSE WithFallback(vc_result[t], primary_model[t]))
    /\ pc' = Set(pc, t, "done")
    /\ UNCHANGED <<envVars, srvVars, logVars, snapVars, mgrVars, running,
                   primary_model, model_key, fallback_models, fb_idx,
                   errors_collected, failed, retryVars>>

\* models.py:292-297, 320-325: the failure dict is collected
OrchFailure(t) ==
    /\ running = t
    /\ pc[t] = "orch_result"
    /\ use_fallback[t]
    /\ ~vc_result[t].success
    /\ errors_collected' = Set(errors_collected, t,
           Append(errors_collected[t],
                  Collected(model_key[t], vc_result[t].error,
                            vc_result[t].error_code)))
    /\ pc' = Set(pc, t, "next")
    /\ UNCHANGED <<envVars, srvVars, logVars, snapVars, mgrVars, running,
                   primary_model, model_key, fallback_models, fb_idx, result,
                   failed, retryVars>>

\* the except clause logs the exception and does not collect it
OrchExceptNoCollect(t) ==
    /\ running = t
    /\ pc[t] = "orch_except"
    /\ use_fallback[t]
    /\ CaughtByException(exc[t])
    /\ LogError(model_key[t], "Provider Error", ExcMessage(exc[t]), None)
    /\ pc' = Set(pc, t, "next")
    /\ UNCHANGED <<envVars, srvVars, aliased, mgrVars, running, orchVars, retryVars>>

\* the except clause collects the exception and does not log it
OrchExceptNoLog(t) ==
    /\ running = t
    /\ pc[t] = "orch_except"
    /\ use_fallback[t]
    /\ CaughtByException(exc[t])
    /\ errors_collected' = Set(errors_collected, t,
           Append(errors_collected[t],
                  Collected(model_key[t], ExcMessage(exc[t]), None)))
    /\ pc' = Set(pc, t, "next")
    /\ UNCHANGED <<envVars, srvVars, logVars, snapVars, mgrVars, running,
                   primary_model, model_key, fallback_models, fb_idx, result,
                   failed, retryVars>>

\* the except clause ends the sweep: no later model is tried
OrchExceptStops(t) ==
    /\ running = t
    /\ pc[t] = "orch_except"
    /\ use_fallback[t]
    /\ CaughtByException(exc[t])
    /\ LET error_msg == ExcMessage(exc[t]) IN
        /\ LogError(model_key[t], "Provider Error", error_msg, None)
        /\ errors_collected' = Set(errors_collected, t,
               Append(errors_collected[t],
                      Collected(model_key[t], error_msg, None)))
    /\ pc' = Set(pc, t, "exhausted")
    /\ UNCHANGED <<envVars, srvVars, aliased, mgrVars, running, primary_model,
                   model_key, fallback_models, fb_idx, result, failed,
                   retryVars>>

\* models.py:299-305, 327-334: except Exception around get_provider and
\* verify_code
OrchExcept(t) ==
    /\ running = t
    /\ pc[t] = "orch_except"
    /\ use_fallback[t]
    /\ CaughtByException(exc[t])
    /\ LET error_msg == ExcMessage(exc[t]) IN
        /\ LogError(model_key[t], "Provider Error", error_msg, None)
        /\ errors_collected' = Set(errors_collected, t,
               Append(errors_collected[t],
                      Collected(model_key[t], error_msg, None)))
    /\ pc' = Set(pc, t, "next")
    /\ UNCHANGED <<envVars, srvVars, aliased, mgrVars, running, primary_model,
                   model_key, fallback_models, fb_idx, result, failed,
                   retryVars>>

\* models.py:308-310: after the primary, the fallback list is computed; the
\* for loop takes its next model, or is over.  The locals of the calls that
\* have returned are gone.
NextModel(t) ==
    /\ running = t
    /\ pc[t] = "next"
    /\ LET fallbacks == IF fb_idx[t] = 0
                        THEN get_fallback_models(primary_model[t])
                        ELSE fallback_models[t]
       IN  /\ fallback_models' = Set(fallback_models, t, fallbacks)
           /\ IF fb_idx[t] < Len(fallbacks)
              THEN /\ fb_idx' = Set(fb_idx, t, fb_idx[t] + 1)
                   /\ model_key' = Set(model_key, t, fallbacks[fb_idx[t] + 1])
                   /\ pc' = Set(pc, t, "resolve")
              ELSE /\ pc' = Set(pc, t, "exhausted")
                   /\ UNCHANGED <<fb_idx, model_key>>
    /\ attempt' = Set(attempt, t, 0)
    /\ last_error' = Set(last_error, t, NoExc)
    /\ response' = Set(response, t, NoExc)
    /\ exc' = Set(exc, t, NoExc)
    /\ wait_time' = Set(wait_time, t, 0)
    /\ calls' = Set(calls, t, 0)
    /\ sleeps' = Set(sleeps, t, <<>>)
    /\ outcomes' = Set(outcomes, t, <<>>)
    /\ UNCHANGED <<envVars, srvVars, logVars, snapVars, mgrVars, running,
                   primary_model, errors_collected, result, failed,
                   vc_result, inflight>>

\* models.py:336-366: every model failed
AllFailed(t) ==
    /\ running = t
    /\ pc[t] = "exhausted"
    /\ result' = Set(result, t, AllFailedResult(errors_collected[t]))
    /\ pc' = Set(pc, t, "done")
    /\ UNCHANGED <<envVars, srvVars, logVars, snapVars, mgrVars, running,
                   primary_model, model_key, fallback_models, fb_idx,
                   errors_collected, failed, retryVars>>

\* server_v2.py:353-355: without fallback, what verify_code returned is the
\* result
DirectReturn(t) ==
    /\ running = t
    /\ pc[t] = "orch_result"
    /\ ~use_fallback[t]
    /\ result' = Set(result, t, vc_result[t])
    /\ pc' = Set(pc, t, "done")
    /\ UNCHANGED <<envVars, srvVars, logVars, snapVars, mgrVars, running,
                   primary_model, model_key, fallback_models, fb_idx,
                   errors_collected, failed, retryVars>>

\* cache.set(arguments, model_key, result)
CacheSet(c, k, res) == (k :> res) @@ c

\* the result is stored under the key of the model that answered
CacheKeyAnswering(t) == result[t].model_key

\* server_v2.py:325, 331, 363: model_key = arguments.get("model", ...), the
\* key given to cache.get and to cache.set
CacheKey(t) == primary_model[t]

\* every result is stored when the cache is in use
ShouldCacheAnyResult(t) == use_cache[t]

\* server_v2.py:362: if use_cache and result["success"]
ShouldCache(t) == use_cache[t] /\ result[t].success

\* server_v2.py:361-365: a success is stored under the requested model key
\* when the cache is in use; the result is returned
Finish(t) ==
    /\ running = t
    /\ pc[t] = "done"
    /\ IF ShouldCache(t)
       THEN /\ cache' = CacheSet(cache, CacheKey(t), result[t])
            /\ cache_ops' = Set(cache_ops, t, Append(cache_ops[t], "set"))
       ELSE UNCHANGED <<cache, cache_ops>>
    /\ reply' = Set(reply, t, Reply(result[t], FALSE))
    /\ pc' = Set(pc, t, "replied")
    /\ running' = NoTask
    /\ UNCHANGED <<envVars, use_fallback, use_cache, met, total_calls, logVars,
                   snapVars, mgrVars, orchVars, retryVars>>

----------------------------------------------------------------------------
(* The server handles one request at a time (server_v2.py:703-712)         *)

TaskInit(requests) ==
    /\ pc = [t \in Tasks |-> IF t \in requests THEN "idle" ELSE "off"]
    /\ primary_model = [t \in Tasks |-> None]
    /\ model_key = [t \in Tasks |-> None]
    /\ fallback_models = [t \in Tasks |-> <<>>]
    /\ fb_idx = [t \in Tasks |-> 0]
    /\ errors_collected = [t \in Tasks |-> <<>>]
    /\ attempt = [t \in Tasks |-> 0]
    /\ last_error = [t \in Tasks |-> NoExc]
    /\ response = [t \in Tasks |-> NoExc]
    /\ exc = [t \in Tasks |-> NoExc]
    /\ wait_time = [t \in Tasks |-> 0]
    /\ vc_result = [t \in Tasks |-> NoResult]
    /\ result = [t \in Tasks |-> NoResult]
    /\ outcomes = [t \in Tasks |-> <<>>]
    /\ calls = [t \in Tasks |-> 0]
    /\ sleeps = [t \in Tasks |-> <<>>]
    /\ inflight = [t \in Tasks |-> 0]
    /\ failed = [t \in Tasks |-> <<>>]
    /\ use_fallback = [t \in Tasks |-> TRUE]
    /\ use_cache = [t \in Tasks |-> TRUE]
    /\ reply = [t \in Tasks |-> NoReply]
    /\ met = [t \in Tasks |-> {}]
    /\ total_calls = [t \in Tasks |-> 0]
    /\ cache_ops = [t \in Tasks |-> <<>>]
    /\ provider = [t \in Tasks |-> NoProvider]

SharedInit ==
    /\ enabled \in [ModelKeys -> BOOLEAN]
    /\ cache = <<>>
    /\ aliased = FALSE
    /\ error_log = <<>>
    /\ clock = 0
    /\ snapshot = <<>>
    /\ recorded = <<>>
    /\ providers = <<>>
    /\ constructed = 0
    /\ running = NoTask

Init == SharedInit /\ network = Outcomes /\ TaskInit({"t1"})

Step(t) ==
    \/ Start(t)
    \/ Resolve(t)
    \/ CallApi(t)
    \/ LoopExhausted(t)
    \/ ApiReturn(t)
    \/ RetryReturn(t)
    \/ RetryHttpError(t)
    \/ RetryOtherError(t)
    \/ Cancel(t)
    \/ Propagate(t)
    \/ SleepDone(t)
    \/ VerifyData(t)
    \/ VerifyExcept(t)
    \/ OrchSuccess(t)
    \/ OrchFailure(t)
    \/ OrchExcept(t)
    \/ NextModel(t)
    \/ AllFailed(t)
    \/ DirectReturn(t)
    \/ Finish(t)

Next == \E t \in Tasks : Step(t)

Spec == Init /\ [][Next]_vars

----------------------------------------------------------------------------
(* Two requests on the same event loop, as two tasks that run              *)
(* _verify_code: while one is suspended in a network call or a sleep the   *)
(* other runs.  The endpoints answer with a verdict or with status 429, or *)
(* time out;                                                               *)
(* only the first model of the registry has an API key.                   *)

ConcOutcomes ==
    { o \in Outcomes :
        \/ o.type \in {"data", "TimeoutException"}
        \/ o.type = "HTTPStatusError" /\ o.status = "429" }

InitConc ==
    /\ SharedInit
    /\ enabled = [k \in ModelKeys |-> k = ModelOrder[1]]
    /\ network = ConcOutcomes
    /\ TaskInit(Tasks)

SpecConc == InitConc /\ [][Next]_vars

----------------------------------------------------------------------------
(* One request against endpoints whose answers differ in their usage       *)
(* object: none, an empty one, one without total_tokens, and totals that   *)
(* are and are not multiples of 1000                                       *)

UsageOutcomes ==
    { Data(FALSE, EmptyDict),
      Data(TRUE, EmptyDict),
      Data(TRUE, "prompt_tokens" :> 1200),
      Data(TRUE, "total_tokens" :> 0),
      Data(TRUE, "total_tokens" :> 1500),
      Data(TRUE, "total_tokens" :> 2000) }

CostOutcomes ==
    UsageOutcomes \cup
        { o \in Outcomes :
            \/ o.type = "TimeoutException"
            \/ o.type = "HTTPStatusError" /\ o.status = "429" }

InitCost ==
    /\ SharedInit
    /\ network = CostOutcomes
    /\ TaskInit({"t1"})

SpecCost == InitCost /\ [][Next]_vars

----------------------------------------------------------------------------
(* One request under fair scheduling.  The event loop runs a task that is  *)
(* ready until its next await, and wakes a task when its sleep is over     *)
(* (models.py:121); that a call to an endpoint eventually returns or       *)
(* raises (models.py:152) is the environment's part.  A request need not   *)
(* arrive and a task need not be cancelled.  The first two models of the   *)
(* registry have an API key.                                               *)

Progress(t) ==
    \/ Resolve(t)
    \/ CallApi(t)
    \/ LoopExhausted(t)
    \/ ApiReturn(t)
    \/ RetryReturn(t)
    \/ RetryHttpError(t)
    \/ RetryOtherError(t)
    \/ Propagate(t)
    \/ SleepDone(t)
    \/ VerifyData(t)
    \/ VerifyExcept(t)
    \/ OrchSuccess(t)
    \/ OrchFailure(t)
    \/ OrchExcept(t)
    \/ NextModel(t)
    \/ AllFailed(t)
    \/ DirectReturn(t)
    \/ Finish(t)

\* the tasks of this specification
Requests == {"t1"}

Fairness == \A t \in Requests : WF_vars(Progress(t))

InitFair ==
    /\ SharedInit
    /\ enabled = [k \in ModelKeys |-> k # ModelOrder[3]]
    /\ network = ConcOutcomes
    /\ TaskInit(Requests)

SpecFair == InitFair /\ [][Next]_vars /\ Fairness

----------------------------------------------------------------------------
(* The diagnostics log under any sequence of its three operations.  A      *)
(* caller reports the same failure (of model_key, with exception exc) over *)
(* and over; the entries differ by their timestamps.  log_error,           *)
(* get_error_log and clear_error_log do not await, so each is one step of  *)
(* the event loop whoever calls it.                                        *)

Reporter == "t1"

\* the failure reported
Reported == HttpError("401", "Unauthorized")

\* log_error(...) as verify_code calls it (models.py:194-199, 210-214)
Report ==
    /\ running = NoTask
    /\ pc[Reporter] = "reporting"
    /\ clock < MaxRecords
    /\ LET f == VerifyFailure(exc[Reporter]) IN
        LogError(model_key[Reporter], f.error_type, f.error_msg,
                 f.status_code)
    /\ UNCHANGED <<envVars, srvVars, aliased, mgrVars, running, pc, orchVars,
                   retryVars>>

\* return _error_log: the caller gets the list object itself
GetErrorLogNoCopy ==
    /\ running = NoTask
    /\ pc[Reporter] = "reporting"
    /\ snapshot' = error_log
    /\ aliased' = TRUE
    /\ UNCHANGED <<envVars, srvVars, logVars, mgrVars, running, pc, orchVars,
                   retryVars>>

\* get_error_log(): _error_log.copy()
GetErrorLog ==
    /\ running = NoTask
    /\ pc[Reporter] = "reporting"
    /\ snapshot' = error_log
    /\ aliased' = FALSE
    /\ UNCHANGED <<envVars, srvVars, logVars, mgrVars, running, pc, orchVars,
                   retryVars>>

\* clear_error_log(): _error_log.clear()
ClearErrorLog ==
    /\ running = NoTask
    /\ pc[Reporter] = "reporting"
    /\ error_log' = <<>>
    /\ snapshot' = IF aliased THEN <<>> ELSE snapshot
    /\ recorded' = <<>>
    /\ UNCHANGED <<envVars, srvVars, clock, aliased, mgrVars, running, pc, orchVars,
                   retryVars>>

InitLog ==
    /\ enabled = [k \in ModelKeys |-> TRUE]
    /\ error_log = <<>>
    /\ clock = 0
    /\ snapshot = <<>>
    /\ recorded = <<>>
    /\ providers = <<>>
    /\ constructed = 0
    /\ running = NoTask
    /\ pc = [t \in Tasks |-> IF t = Reporter THEN "reporting" ELSE "off"]
    /\ primary_model = [t \in Tasks |-> None]
    /\ model_key = [t \in Tasks |-> IF t = Reporter THEN ModelOrder[1] ELSE None]
    /\ exc = [t \in Tasks |-> IF t = Reporter THEN Reported ELSE NoExc]
    /\ fallback_models = [t \in Tasks |-> <<>>]
    /\ fb_idx = [t \in Tasks |-> 0]
    /\ errors_collected = [t \in Tasks |-> <<>>]
    /\ attempt = [t \in Tasks |-> 0]
    /\ last_error = [t \in Tasks |-> NoExc]
    /\ response = [t \in Tasks |-> NoExc]
    /\ wait_time = [t \in Tasks |-> 0]
    /\ vc_result = [t \in Tasks |-> NoResult]
    /\ result = [t \in Tasks |-> NoResult]
    /\ outcomes = [t \in Tasks |-> <<>>]
    /\ calls = [t \in Tasks |-> 0]
    /\ sleeps = [t \in Tasks |-> <<>>]
    /\ inflight = [t \in Tasks |-> 0]
    /\ failed = [t \in Tasks |-> <<>>]
    /\ network = Outcomes
    /\ use_fallback = [t \in Tasks |-> TRUE]
    /\ use_cache = [t \in Tasks |-> TRUE]
    /\ cache = <<>>
    /\ reply = [t \in Tasks |-> NoReply]
    /\ met = [t \in Tasks |-> {}]
    /\ total_calls = [t \in Tasks |-> 0]
    /\ cache_ops = [t \in Tasks |-> <<>>]
    /\ aliased = FALSE
    /\ provider = [t \in Tasks |-> NoProvider]

NextLog == Report \/ GetErrorLog \/ ClearErrorLog

SpecLog == InitLog /\ [][NextLog]_vars

----------------------------------------------------------------------------
(* A caller of get_error_log changes the list it was given, while the log   *)
(* goes on being written and cleared.  Lists are objects: a change made     *)
(* through one reference is seen through every reference to the same list. *)

\* an element the caller adds
CallerEntry ==
    [timestamp |-> 0, model |-> "caller", error_type |-> None,
     details |-> "", status_code |-> None]

Reverse(seq) == [i \in 1..Len(seq) |-> seq[Len(seq) + 1 - i]]

\* what the caller can make of the list: append, pop(0), reverse
Mutations(list) ==
    (IF Len(list) < MaxSnapshot
        THEN {Append(list, CallerEntry)} ELSE {})
    \cup (IF list # <<>> THEN {Tail(list), Reverse(list)} ELSE {})

\* the caller changes the returned list in place
CallerMutates ==
    /\ running = NoTask
    /\ pc[Reporter] = "reporting"
    /\ Len(snapshot) <= MaxSnapshot
    /\ \E list \in Mutations(snapshot) :
        /\ snapshot' = list
        /\ error_log' = IF aliased THEN list ELSE error_log
    /\ UNCHANGED <<envVars, srvVars, clock, recorded, aliased, mgrVars,
                   running, pc, orchVars, retryVars>>

\* the log after MaxRecords - MaxCopyRecords entries and a clear
InitCopy ==
    /\ enabled = [k \in ModelKeys |-> TRUE]
    /\ error_log = <<>>
    /\ clock = MaxRecords - MaxCopyRecords
    /\ snapshot = <<>>
    /\ recorded = <<>>
    /\ providers = <<>>
    /\ constructed = 0
    /\ running = NoTask
    /\ pc = [t \in Tasks |-> IF t = Reporter THEN "reporting" ELSE "off"]
    /\ primary_model = [t \in Tasks |-> None]
    /\ model_key = [t \in Tasks |-> IF t = Reporter THEN ModelOrder[1] ELSE None]
    /\ exc = [t \in Tasks |-> IF t = Reporter THEN Reported ELSE NoExc]
    /\ fallback_models = [t \in Tasks |-> <<>>]
    /\ fb_idx = [t \in Tasks |-> 0]
    /\ errors_collected = [t \in Tasks |-> <<>>]
    /\ attempt = [t \in Tasks |-> 0]
    /\ last_error = [t \in Tasks |-> NoExc]
    /\ response = [t \in Tasks |-> NoExc]
    /\ wait_time = [t \in Tasks |-> 0]
    /\ vc_result = [t \in Tasks |-> NoResult]
    /\ result = [t \in Tasks |-> NoResult]
    /\ outcomes = [t \in Tasks |-> <<>>]
    /\ calls = [t \in Tasks |-> 0]
    /\ sleeps = [t \in Tasks |-> <<>>]
    /\ inflight = [t \in Tasks |-> 0]
    /\ failed = [t \in Tasks |-> <<>>]
    /\ network = Outcomes
    /\ use_fallback = [t \in Tasks |-> TRUE]
    /\ use_cache = [t \in Tasks |-> TRUE]
    /\ cache = <<>>
    /\ reply = [t \in Tasks |-> NoReply]
    /\ met = [t \in Tasks |-> {}]
    /\ total_calls = [t \in Tasks |-> 0]
    /\ cache_ops = [t \in Tasks |-> <<>>]
    /\ aliased = FALSE
    /\ provider = [t \in Tasks |-> NoProvider]

NextCopy == Report \/ GetErrorLog \/ ClearErrorLog \/ CallerMutates

SpecCopy == InitCopy /\ [][NextCopy]_vars

----------------------------------------------------------------------------
(* The diagnostics log when the messages reported differ in length: short, *)
(* one character under, at and over the limit of details, and well over it *)

Ten == "0123456789"

Hundred == Ten \o Ten \o Ten \o Ten \o Ten \o Ten \o Ten \o Ten \o Ten \o Ten

\* a text of n characters, n <= 700
Text(n) ==
    SubSeq(Hundred \o Hundred \o Hundred \o Hundred \o Hundred \o Hundred
               \o Hundred, 1, n)

\* str(e) of a ConnectError with n characters
ConnectFailure(n) ==
    [type |-> "ConnectError", name |-> "ConnectError", status |-> None,
     text |-> Text(n)]

\* the prefix verify_code puts before str(e) (models.py:224)
ConnectPrefix == "Connection failed: "

\* the failures reported: their messages have 28, DETAILS_MAX - 1,
\* DETAILS_MAX, DETAILS_MAX + 1 and 640 characters; the body of the HTTP
\* error has 400 characters, of which the message takes 300 (models.py:193)
DetailFailures ==
    { Reported,
      HttpError("504", Text(400)),
      ConnectFailure(DETAILS_MAX - 1 - Len(ConnectPrefix)),
      ConnectFailure(DETAILS_MAX - Len(ConnectPrefix)),
      ConnectFailure(DETAILS_MAX + 1 - Len(ConnectPrefix)),
      ConnectFailure(640 - Len(ConnectPrefix)) }

\* the log after MaxRecords - MaxCopyRecords entries and a clear, before the
\* reports of one of the failures
InitDetails ==
    /\ enabled = [k \in ModelKeys |-> TRUE]
    /\ error_log = <<>>
    /\ clock = MaxRecords - MaxCopyRecords
    /\ snapshot = <<>>
    /\ recorded = <<>>
    /\ providers = <<>>
    /\ constructed = 0
    /\ running = NoTask
    /\ pc = [t \in Tasks |-> IF t = Reporter THEN "reporting" ELSE "off"]
    /\ primary_model = [t \in Tasks |-> None]
    /\ model_key = [t \in Tasks |-> IF t = Reporter THEN ModelOrder[1] ELSE None]
    /\ \E e \in DetailFailures :
          exc = [t \in Tasks |-> IF t = Reporter THEN e ELSE NoExc]
    /\ fallback_models = [t \in Tasks |-> <<>>]
    /\ fb_idx = [t \in Tasks |-> 0]
    /\ errors_collected = [t \in Tasks |-> <<>>]
    /\ attempt = [t \in Tasks |-> 0]
    /\ last_error = [t \in Tasks |-> NoExc]
    /\ response = [t \in Tasks |-> NoExc]
    /\ wait_time = [t \in Tasks |-> 0]
    /\ vc_result = [t \in Tasks |-> NoResult]
    /\ result = [t \in Tasks |-> NoResult]
    /\ outcomes = [t \in Tasks |-> <<>>]
    /\ calls = [t \in Tasks |-> 0]
    /\ sleeps = [t \in Tasks |-> <<>>]
    /\ inflight = [t \in Tasks |-> 0]
    /\ failed = [t \in Tasks |-> <<>>]
    /\ network = Outcomes
    /\ use_fallback = [t \in Tasks |-> TRUE]
    /\ use_cache = [t \in Tasks |-> TRUE]
    /\ cache = <<>>
    /\ reply = [t \in Tasks |-> NoReply]
    /\ met = [t \in Tasks |-> {}]
    /\ total_calls = [t \in Tasks |-> 0]
    /\ cache_ops = [t \in Tasks |-> <<>>]
    /\ aliased = FALSE
    /\ provider = [t \in Tasks |-> NoProvider]

SpecDetails == InitDetails /\ [][NextLog]_vars

----------------------------------------------------------------------------
(* Properties of the retry loop (checked under Spec)                       *)

\* every call of the current retry loop has returned, each with HTTP status s
AllFailedWith(t, s) ==
    /\ Len(outcomes[t]) > 0
    /\ Len(outcomes[t]) = calls[t]
    /\ \A i \in DOMAIN outcomes[t] :
        outcomes[t][i].type = "HTTPStatusError" /\ outcomes[t][i].status = s

\* the exception of the retry loop has left _call_api_with_retry and the
\* task was not cancelled
GaveUp(t) ==
    /\ pc[t] \in {"vc_except", "orch_result", "next"}
    /\ exc[t] # NoExc
    /\ exc[t] # Cancelled

\* C1: a retry loop never makes more than RETRY_ATTEMPTS calls; when every
\* call failed with the same status of RETRY_STATUS_CODES and the loop has
\* given up, it has made exactly RETRY_ATTEMPTS calls and raised that
\* failure.
C1_RetryBudget ==
    \A t \in Tasks :
        /\ calls[t] <= RETRY_ATTEMPTS
        /\ \A s \in RETRY_STATUS_CODES :
            (AllFailedWith(t, s) /\ GaveUp(t)) =>
                /\ calls[t] = RETRY_ATTEMPTS
                /\ exc[t].type = "HTTPStatusError"
                /\ exc[t].status = s

C1_Witness ==
    /\ pc["t1"] = "vc_except"
    /\ AllFailedWith("t1", "429")
    /\ calls["t1"] = RETRY_ATTEMPTS
    /\ exc["t1"] = HttpError("429", "Too Many Requests")

\* a failure that the retry loop does not retry
NonRetryable(o) ==
    /\ ~IsData(o)
    /\ ~(o.type = "HTTPStatusError" /\ o.status \in RETRY_STATUS_CODES)

\* C2: once a call of the retry loop has failed with a non-retryable
\* failure, that call is the last one made for the model, no sleep follows
\* it, and the failure is the exception that leaves the loop; when it is the
\* first call, one call and no sleep were made.
C2_NonRetryable ==
    \A t \in Tasks :
        \A i \in DOMAIN outcomes[t] :
            NonRetryable(outcomes[t][i]) =>
                /\ i = Len(outcomes[t])
                /\ calls[t] = i
                /\ Len(sleeps[t]) = i - 1
                /\ pc[t] \in {"returned", "vc_except", "orch_result", "next",
                            "done", "replied"}
                /\ pc[t] # "returned" => exc[t] = outcomes[t][i]

C2_Witness ==
    /\ pc["t1"] = "orch_result"
    /\ Len(outcomes["t1"]) = 1
    /\ outcomes["t1"][1].type = "TimeoutException"
    /\ calls["t1"] = 1
    /\ sleeps["t1"] = <<>>
    /\ ~vc_result["t1"].success

\* a failure that the retry loop retries
Retryable(o) == o.type = "HTTPStatusError" /\ o.status \in RETRY_STATUS_CODES

\* the last element of a non-empty sequence
Last(seq) == seq[Len(seq)]

\* C12: a response of the retry loop is the loop's last call, made after
\* retryable failures only, and no call, sleep or retry follows it; and when
\* the loop gives up, the exception it raises is the failure of the last call
\* made, whose status is the error_code verify_code returns and the
\* status_code it logs.
C12_FirstSuccessLastFailure ==
    \A t \in Tasks :
        /\ \A i \in DOMAIN outcomes[t] :
            IsData(outcomes[t][i]) =>
                /\ i = Len(outcomes[t])
                /\ i = calls[t]
                /\ i <= RETRY_ATTEMPTS
                /\ \A j \in 1..(i - 1) : Retryable(outcomes[t][j])
                /\ pc[t] \notin {"attempt", "calling", "sleeping"}
                /\ response[t] = outcomes[t][i]
        /\ (/\ pc[t] \in {"vc_except", "orch_result"}
            /\ exc[t] \notin {NoExc, Cancelled}
            /\ outcomes[t] # <<>>
            /\ ~IsData(Last(outcomes[t]))) =>
                /\ exc[t] = Last(outcomes[t])
                /\ Len(outcomes[t]) = calls[t]
                /\ pc[t] = "orch_result" =>
                    /\ ~vc_result[t].success
                    /\ vc_result[t].error_code =
                           (IF exc[t].type = "HTTPStatusError"
                            THEN Last(outcomes[t]).status
                            ELSE VerifyFailure(exc[t]).error_code)
                    /\ Last(error_log).status_code = Last(outcomes[t]).status

C12_Witness ==
    /\ pc["t1"] = "orch_result"
    /\ Len(outcomes["t1"]) = RETRY_ATTEMPTS
    /\ outcomes["t1"][1].status = "429"
    /\ outcomes["t1"][2].status = "429"
    /\ outcomes["t1"][3].status = "504"
    /\ vc_result["t1"].error_code = "504"

\* C13: the i-th sleep of a retry loop (i from 0) follows the i-th call,
\* which failed with a retryable status, and lasts exactly
\* min(RETRY_MIN_WAIT * 2^i, RETRY_MAX_WAIT); a loop sleeps at most
\* RETRY_ATTEMPTS - 1 times, never after its last attempt, and exactly
\* RETRY_ATTEMPTS - 1 times when every attempt failed with a retryable
\* status; the durations never decrease and never exceed RETRY_MAX_WAIT.
C13_Backoff ==
    \A t \in Tasks :
        LET n == Len(sleeps[t]) IN
        /\ n <= RETRY_ATTEMPTS - 1
        /\ \A i \in 0..(n - 1) :
            /\ sleeps[t][i + 1] =
                   (IF RETRY_MIN_WAIT * (2 ^ i) < RETRY_MAX_WAIT
                    THEN RETRY_MIN_WAIT * (2 ^ i) ELSE RETRY_MAX_WAIT)
            /\ sleeps[t][i + 1] <= RETRY_MAX_WAIT
            /\ i > 0 => sleeps[t][i] <= sleeps[t][i + 1]
            /\ i + 1 <= Len(outcomes[t]) /\ Retryable(outcomes[t][i + 1])
        /\ pc[t] = "sleeping" =>
            /\ n = calls[t]
            /\ wait_time[t] = sleeps[t][n]
        /\ calls[t] > 0 =>
            \/ n = calls[t] - 1
            \/ /\ n = calls[t]
               /\ \/ pc[t] \in {"sleeping", "attempt"} /\ LoopContinues(n)
                  \/ exc[t] = Cancelled
        /\ (/\ calls[t] = RETRY_ATTEMPTS
            /\ Len(outcomes[t]) = RETRY_ATTEMPTS
            /\ \A i \in DOMAIN outcomes[t] : Retryable(outcomes[t][i])) =>
                n = RETRY_ATTEMPTS - 1

C13_Witness ==
    /\ pc["t1"] = "vc_except"
    /\ calls["t1"] = RETRY_ATTEMPTS
    /\ Len(outcomes["t1"]) = RETRY_ATTEMPTS
    /\ exc["t1"] = HttpError("504", "Gateway Timeout")
    /\ sleeps["t1"] = <<RETRY_MIN_WAIT, RETRY_MAX_WAIT>>
    /\ RETRY_MIN_WAIT * 2 > RETRY_MAX_WAIT

----------------------------------------------------------------------------
(* Properties of the fallback sweep (checked under Spec)                   *)

\* verify_with_fallback has returned
Returned(t) ==
    /\ pc[t] \in {"done", "replied"}
    /\ use_fallback[t]
    /\ ~reply[t].from_cache

\* C3: when the primary failed and a fallback answered, the result is a
\* success with fallback_used, primary_model_failed the requested key, and
\* model_key the fallback that answered, which is the first of the fallback
\* order that did not fail.
C3_FallbackSuccess ==
    \A t \in Tasks :
        (Returned(t) /\ result[t].success /\ Len(failed[t]) > 0) =>
            /\ result[t].fallback_used
            /\ result[t].primary_model_failed = primary_model[t]
            /\ failed[t][1].model = primary_model[t]
            /\ result[t].model_key # primary_model[t]
            /\ result[t].model_key = model_key[t]
            /\ \E k \in 1..Len(fallback_models[t]) :
                /\ fallback_models[t][k] = result[t].model_key
                /\ Len(failed[t]) = k
                /\ \A j \in 1..(k - 1) :
                    failed[t][j + 1].model = fallback_models[t][j]

C3_Witness ==
    /\ Returned("t1")
    /\ result["t1"].success
    /\ primary_model["t1"] = "gemini-flash"
    /\ Len(failed["t1"]) = 2
    /\ result["t1"].model_key = "minimax"
    /\ result["t1"].fallback_used

ModelsOf(entries) == [i \in 1..Len(entries) |-> entries[i].model]

\* C4: when every model failed the result is a failure whose errors list
\* names the primary first and then the models of
\* get_fallback_models(primary), in that order, one entry each, which are
\* the models that were attempted; no model is named twice.
C4_AllFailedErrors ==
    \A t \in Tasks :
        (Returned(t) /\ ~result[t].success) =>
            LET errs == result[t].errors IN
            /\ ModelsOf(errs) =
                   <<primary_model[t]>> \o get_fallback_models(primary_model[t])
            /\ ModelsOf(errs) = ModelsOf(failed[t])
            /\ \A i, j \in 1..Len(errs) :
                i # j => errs[i].model # errs[j].model

C4_Witness ==
    /\ Returned("t1")
    /\ ~result["t1"].success
    /\ ModelsOf(result["t1"].errors) = <<"minimax", "glm-4.7", "gemini-flash">>

InSeq(x, seq) == \E i \in 1..Len(seq) : seq[i] = x

\* C5: in the result returned when every model failed, the credential hint
\* is among the recommendations exactly when the attempt of some model ended
\* with HTTP status 401, which is when some collected failure has error code
\* 401.
C5_CredentialHint ==
    \A t \in Tasks :
        (Returned(t) /\ ~result[t].success) =>
            /\ InSeq(HintCredential, result[t].recommendations)
                <=> (\E i \in 1..Len(failed[t]) : failed[t][i].status = "401")
            /\ InSeq(HintCredential, result[t].recommendations)
                <=> (\E i \in 1..Len(result[t].errors) :
                        result[t].errors[i].error_code = "401")

C5_Witness ==
    /\ Returned("t1")
    /\ ~result["t1"].success
    /\ Len(failed["t1"]) = 3
    /\ failed["t1"][1].status = "429"
    /\ failed["t1"][3].status = "401"
    /\ InSeq(HintCredential, result["t1"].recommendations)

\* C6: no exception but the cancellation of the task leaves
\* verify_with_fallback, and what it returns is a success or a failure whose
\* errors list names every model that failed.
C6_NoEscape ==
    \A t \in Tasks :
        /\ (pc[t] = "raised" /\ use_fallback[t]) => exc[t] = Cancelled
        /\ Returned(t) =>
            \/ result[t].success
            \/ /\ Len(failed[t]) > 0
               /\ ModelsOf(result[t].errors) = ModelsOf(failed[t])

C6_Witness ==
    /\ Returned("t1")
    /\ ~result["t1"].success
    /\ Len(failed["t1"]) = 3
    /\ failed["t1"][1].how = "resolve"
    /\ failed["t1"][2].how = "response"
    /\ failed["t1"][3].how = "retry"
    /\ failed["t1"][3].status = None

\* MODELS has no enabled config for k
Unresolvable(k) == k \notin ModelKeys \/ ~enabled[k]

\* C9: while the model of a request is an unknown or disabled key, no call
\* has been made or is in flight for it, no provider is cached for it, its
\* resolution was tried once and raised the ValueError of __init__.
C9_NoCallUnresolvable ==
    \A t \in Tasks :
        (pc[t] \notin {"off", "idle"} /\ Unresolvable(model_key[t])) =>
            /\ calls[t] = 0
            /\ inflight[t] = 0
            /\ model_key[t] \notin DOMAIN providers
            /\ pc[t] \in {"resolve", "orch_except", "next", "exhausted", "done",
                        "raised", "replied"}
            /\ pc[t] = "orch_except" =>
                /\ exc[t] = ProviderInitError(model_key[t])
                /\ exc[t].name = "ValueError"
            /\ pc[t] # "resolve" =>
                Cardinality({i \in 1..Len(failed[t]) :
                                failed[t][i].model = model_key[t]}) = 1

C9_Witness ==
    /\ pc["t1"] = "orch_except"
    /\ model_key["t1"] \in ModelKeys
    /\ ~enabled[model_key["t1"]]
    /\ calls["t1"] = 0

\* the models of the request in their order: the primary, then the fallbacks
Sequence(t) == <<primary_model[t]>> \o fallback_models[t]

\* a call of the model at position fb_idx + 1 is in flight, and every
\* earlier model of the sequence has failed in one of the ways named
StartsAfter(t, ways) ==
    pc[t] = "calling" =>
        /\ Len(failed[t]) = fb_idx[t]
        /\ \A j \in 1..fb_idx[t] :
            /\ failed[t][j].model = Sequence(t)[j]
            /\ failed[t][j].how \in ways

\* C10, as stated: at most one call of a request is in flight, and a model
\* is called only after every earlier model's retry loop ended in a failure
\* or its resolution raised.
C10_Original ==
    \A t \in Tasks :
        /\ inflight[t] <= 1
        /\ StartsAfter(t, {"retry", "resolve"})

\* C10, amended: at most one call of a request is in flight, and a model is
\* called only after every earlier model's retry loop ended in a failure, its
\* resolution raised, or verify_code failed to read the verdict from its
\* response.
C10_Sequential ==
    \A t \in Tasks :
        /\ inflight[t] <= 1
        /\ inflight[t] = (IF pc[t] = "calling" THEN 1 ELSE 0)
        /\ StartsAfter(t, {"retry", "resolve", "response"})

C10_Witness ==
    /\ pc["t1"] = "calling"
    /\ fb_idx["t1"] = 2
    /\ inflight["t1"] = 1
    /\ failed["t1"][1].how = "retry"
    /\ failed["t1"][2].how = "response"

\* C11: when the primary answers, verify_with_fallback returns its result
\* as it is: model_key is the primary, no fallback metadata is set, the
\* fallback list was never computed, and no other model was resolved or
\* called.
C11_PrimarySuccess ==
    \A t \in Tasks :
        (Returned(t) /\ result[t].success /\ failed[t] = <<>>) =>
            /\ result[t].model_key = primary_model[t]
            /\ ~result[t].fallback_used
            /\ result[t].primary_model_failed = None
            /\ result[t] = vc_result[t]
            /\ fb_idx[t] = 0
            /\ fallback_models[t] = <<>>
            /\ errors_collected[t] = <<>>
            /\ model_key[t] = primary_model[t]
            /\ DOMAIN providers = {primary_model[t]}
            /\ constructed = 1

C11_Witness ==
    /\ Returned("t1")
    /\ pc["t1"] = "replied"
    /\ result["t1"].success
    /\ failed["t1"] = <<>>
    /\ calls["t1"] = RETRY_ATTEMPTS
    /\ Cardinality({k \in ModelKeys : enabled[k]}) = 3

\* the status of an HTTP failure
HttpStatuses == {o.status : o \in {x \in Outcomes : x.type = "HTTPStatusError"}}

\* C15: when verify_code returns a failure, the last entry of the
\* diagnostics log is that failure: the model's key, the message returned,
\* and the status code when the failure is an HTTP error; when
\* verify_with_fallback goes on to the next model or returns, the log holds
\* one entry for each failed model, in the order of the collected failures,
\* with the status code of each HTTP failure.
C15_FailuresLogged ==
    \A t \in Tasks :
        /\ (pc[t] = "orch_result" /\ ~vc_result[t].success) =>
            /\ error_log # <<>>
            /\ Len(error_log) = Len(failed[t])
            /\ Last(error_log).model = model_key[t]
            /\ Last(error_log).model = vc_result[t].model_key
            /\ Last(error_log).details = vc_result[t].error
            /\ vc_result[t].error_code \in HttpStatuses =>
                Last(error_log).status_code = vc_result[t].error_code
            /\ Last(failed[t]).status \in HttpStatuses =>
                Last(error_log).status_code = Last(failed[t]).status
        /\ (pc[t] = "next" \/ Returned(t)) =>
            /\ ModelsOf(error_log) = ModelsOf(failed[t])
            /\ ModelsOf(error_log) = ModelsOf(errors_collected[t])
            /\ \A j \in 1..Len(error_log) :
                /\ error_log[j].details = errors_collected[t][j].error
                /\ failed[t][j].status \in HttpStatuses =>
                    /\ error_log[j].status_code = failed[t][j].status
                    /\ error_log[j].error_type = "HTTP Error"
                /\ failed[t][j].how = "resolve" =>
                    error_log[j].error_type = "Provider Error"

C15_Witness ==
    /\ Returned("t1")
    /\ ~result["t1"].success
    /\ Len(error_log) = 3
    /\ failed["t1"][1].how = "resolve"
    /\ failed["t1"][2].status = "504"
    /\ error_log[2].status_code = "504"
    /\ failed["t1"][3].status = "401"
    /\ error_log[3].status_code = "401"

\* some collected failure is a timeout of the request
HasTimeout(errs) == \E i \in 1..Len(errs) : errs[i].error_code = "TIMEOUT"

\* C16: when every model failed and some collected failure is a timeout
\* (error_code "TIMEOUT"), the timeout hint is among the recommendations, so
\* the recommendations are not the generic guidance alone.
C16_TimeoutHint ==
    \A t \in Tasks :
        (Returned(t) /\ ~result[t].success /\ HasTimeout(result[t].errors)) =>
            /\ InSeq(HintTimeout, result[t].recommendations)
            /\ result[t].recommendations # <<HintStatus, HintCredits>>

\* the hints by priority: credential, rate limit, timeout, connection, and
\* the generic guidance last
Priority ==
    <<HintCredential, HintRateLimit, HintTimeout, HintConnection, HintStatus,
      HintCredits>>

PriorityOf(hint) == CHOOSE i \in 1..Len(Priority) : Priority[i] = hint

\* C17: the recommendations of an all-failed result are hints of the
\* priority list, each at most once, in the order of the priority list; the
\* generic guidance comes with no other hint.
C17_HintsOrdered ==
    \A t \in Tasks :
        (Returned(t) /\ ~result[t].success) =>
            LET recs == result[t].recommendations IN
            /\ recs # <<>>
            /\ \A i \in 1..Len(recs) : InSeq(recs[i], Priority)
            /\ \A i, j \in 1..Len(recs) :
                i < j => PriorityOf(recs[i]) < PriorityOf(recs[j])
            /\ (InSeq(HintStatus, recs) \/ InSeq(HintCredits, recs)) =>
                recs = <<HintStatus, HintCredits>>

C17_Witness ==
    /\ Returned("t1")
    /\ ~result["t1"].success
    /\ Len(result["t1"].errors) = 3
    /\ result["t1"].errors[1].error_code = "CONNECTION_ERROR"
    /\ result["t1"].errors[2].error_code = "401"
    /\ result["t1"].errors[3].error_code = "401"
    /\ result["t1"].recommendations = <<HintCredential, HintConnection>>

\* the CancelledError of request t has been raised
IsCancelled(t) == response[t] = Cancelled \/ exc[t] = Cancelled

\* C18: once a request is cancelled in its network call or in its backoff
\* sleep, no step of it makes a call, sleeps, moves to another model, writes
\* to the diagnostics log or to the result cache, or returns a result: the
\* CancelledError goes up frame by frame and leaves the request, with the log
\* holding the entries of the models that had failed before and nothing for
\* the cancelled attempt.
C18_CancelPropagates ==
    [][\A t \in Tasks :
          IsCancelled(t) =>
              /\ calls'[t] = calls[t]
              /\ inflight'[t] = 0
              /\ sleeps'[t] = sleeps[t]
              /\ model_key'[t] = model_key[t]
              /\ fb_idx'[t] = fb_idx[t]
              /\ errors_collected'[t] = errors_collected[t]
              /\ error_log' = error_log
              /\ Len(error_log) = Len(failed[t])
              /\ cache' = cache
              /\ reply'[t] = NoReply
              /\ pc'[t] \in {"returned", "vc_except", "orch_except", "raised"}
              /\ pc[t] = "orch_except" => pc'[t] = "raised"]_vars

C18_Witness ==
    /\ pc["t1"] = "raised"
    /\ exc["t1"] = Cancelled
    /\ use_cache["t1"]
    /\ use_fallback["t1"]
    /\ fb_idx["t1"] = 1
    /\ Len(fallback_models["t1"]) = 2
    /\ calls["t1"] = 1
    /\ sleeps["t1"] = <<RETRY_MIN_WAIT>>
    /\ Len(error_log) = 1
    /\ cache = <<>>

----------------------------------------------------------------------------
(* Properties of the request without fallback (checked under Spec)         *)

\* C20: a request with use_fallback false resolves and calls the requested
\* model only, with at most RETRY_ATTEMPTS calls, and, unless it is
\* cancelled, ends by returning what verify_code returned for that model: a
\* success, or a failure with its error message.
C20_DirectPath ==
    \A t \in Tasks :
        (~use_fallback[t] /\ pc[t] \notin {"off", "idle"}) =>
            /\ model_key[t] = primary_model[t]
            /\ fb_idx[t] = 0
            /\ fallback_models[t] = <<>>
            /\ DOMAIN providers \subseteq {primary_model[t]}
            /\ calls[t] <= RETRY_ATTEMPTS
            /\ pc[t] = "raised" => exc[t] = Cancelled
            /\ (pc[t] = "replied" /\ ~reply[t].from_cache) =>
                /\ reply[t].result = vc_result[t]
                /\ reply[t].result.model_key = primary_model[t]
                /\ reply[t].result.success \/ reply[t].result.error # ""

----------------------------------------------------------------------------
(* Properties of concurrent requests (checked under SpecConc)              *)

\* C14: one ModelProvider is constructed for each key that has a provider,
\* it is the one cached under the key, and every get_provider that returned
\* has returned the cached object of its key, so two requests that resolved
\* the same key hold the same object.
C14_OneProviderPerKey ==
    /\ Cardinality(DOMAIN providers) = constructed
    /\ \A k \in DOMAIN providers : providers[k].model_key = k
    /\ \A t \in Tasks :
        provider[t] # NoProvider =>
            /\ provider[t].model_key \in DOMAIN providers
            /\ provider[t] = providers[provider[t].model_key]
    /\ \A t, u \in Tasks :
        (provider[t] # NoProvider
            /\ provider[t].model_key = provider[u].model_key) =>
                provider[t].oid = provider[u].oid

C14_Witness ==
    /\ pc["t1"] = "calling"
    /\ pc["t2"] = "calling"
    /\ attempt["t1"] = 0
    /\ attempt["t2"] = 0
    /\ fb_idx["t1"] = 0
    /\ fb_idx["t2"] = 0
    /\ provider["t1"].model_key = ModelOrder[1]
    /\ provider["t1"] = provider["t2"]
    /\ constructed = 1

----------------------------------------------------------------------------
(* Properties of the diagnostics log (checked under SpecLog)               *)

\* C7: the diagnostics log never holds more than 50 entries.
C7_LogBounded == Len(error_log) <= LOG_MAX

C7_Witness ==
    /\ Len(error_log) = LOG_MAX
    /\ Len(recorded) > LOG_MAX
    /\ snapshot # <<>>

\* the last n elements of seq
LastN(seq, n) == SubSeq(seq, Len(seq) - n + 1, Len(seq))

\* C8: get_error_log returns the last min(n, 50) of the n entries logged
\* since the log was last empty, in the order they were logged.
C8_FifoOrder ==
    [][GetErrorLog =>
          snapshot' = LastN(recorded, Min(Len(recorded), LOG_MAX))]_vars

C8_Witness ==
    /\ Len(recorded) = 55
    /\ snapshot = error_log
    /\ Len(snapshot) = LOG_MAX
    /\ snapshot[1] = recorded[6]
    /\ snapshot[LOG_MAX] = recorded[55]

\* C19: get_error_log returns the entries of the log in a list of its own:
\* what the caller adds to, removes from or reorders in the returned list
\* leaves the log as it was, and what log_error and clear_error_log do to
\* the log leaves a list returned earlier as it was.
C19_SnapshotCopy ==
    [][/\ GetErrorLog => (snapshot' = error_log /\ error_log' = error_log)
       /\ CallerMutates => (error_log' = error_log /\ recorded' = recorded)
       /\ (Report \/ ClearErrorLog) => snapshot' = snapshot]_vars

C19_Witness ==
    /\ Len(error_log) = 3
    /\ Len(snapshot) = 2
    /\ snapshot[1] = error_log[2]
    /\ snapshot[2].model = "caller"
    /\ \A i \in 1..Len(error_log) : error_log[i].model # "caller"

C22_Cost ==
    \A t \in Tasks :
        /\ (pc[t] = "vc_data" /\ response[t].type = "data") =>
              ENABLED VerifyData(t)
        /\ (pc[t] = "orch_result" /\ response[t].type = "data") =>
              LET r == vc_result[t]
                  k == provider[t].model_key
                  rate == IF k \in DOMAIN CostPer1k THEN CostPer1k[k] ELSE 0
                  body == response[t]
              IN  /\ r.success
                  /\ r.model_key = k
                  /\ IF body.has_usage
                        /\ "total_tokens" \in DOMAIN body.usage
                     THEN /\ r.cost = body.usage["total_tokens"] * rate
                          /\ (body.usage["total_tokens"] = 2000 /\ rate = 400)
                                => r.cost = 800000
                     ELSE r.cost = 0

\* a fallback model answered 1500 tokens at 0.075 per thousand: 0.1125
C22_Witness ==
    /\ pc["t1"] = "orch_result"
    /\ fb_idx["t1"] > 0
    /\ provider["t1"].model_key = ModelOrder[2]
    /\ response["t1"].type = "data"
    /\ response["t1"].usage = ("total_tokens" :> 1500)
    /\ vc_result["t1"].success
    /\ vc_result["t1"].cost = 112500

\* the answer has no usage object and is a success that costs nothing
C22_WitnessNoUsage ==
    /\ pc["t1"] = "replied"
    /\ response["t1"].type = "data"
    /\ ~response["t1"].has_usage
    /\ reply["t1"].result.success
    /\ reply["t1"].result.cost = 0

\* verify_with_fallback has returned a success or the result for the case
\* that every model failed
Terminated(t) ==
    /\ pc[t] \in {"done", "replied"}
    /\ \/ result[t].success
       \/ /\ ~result[t].success
          /\ result[t].model_key = None
          /\ Len(result[t].errors) = 1 + Len(fallback_models[t])

\* RETRY_ATTEMPTS * (1 + number of fallback models)
CallBudget(t) ==
    RETRY_ATTEMPTS * (1 + Len(get_fallback_models(primary_model[t])))

\* C23: when every call to an endpoint eventually returns or raises, a
\* request that entered verify_with_fallback and is not cancelled eventually
\* has a success or the all-models-failed result, and it never makes more
\* than RETRY_ATTEMPTS * (1 + number of fallback models) calls.
C23_Terminates ==
    /\ \A t \in Requests :
          (pc[t] = "resolve" /\ use_fallback[t]) ~>
              (Terminated(t) \/ (pc[t] = "raised" /\ IsCancelled(t)))
    /\ [](\A t \in Tasks :
              (pc[t] # "idle" /\ pc[t] # "off" /\ use_fallback[t]) =>
                  total_calls[t] <= CallBudget(t))

\* every model answered 429 to every call: the budget is used up
C23_Witness ==
    /\ pc["t1"] = "replied"
    /\ use_fallback["t1"]
    /\ Terminated("t1")
    /\ ~result["t1"].success
    /\ Len(fallback_models["t1"]) = 1
    /\ total_calls["t1"] = CallBudget("t1")
    /\ total_calls["t1"] = 2 * RETRY_ATTEMPTS

\* the primary and the models of get_fallback_models(primary), in order
FullSequence(t) ==
    <<primary_model[t]>> \o get_fallback_models(primary_model[t])

\* C24: the exception that resolving or calling a model raised into
\* verify_with_fallback is logged under that model and collected under it,
\* and the sweep goes on with the next model: a request ends only with a
\* success or after every model of its sequence was attempted.
C24_ExceptionContinues ==
    /\ [][\A t \in Tasks :
            OrchExcept(t) =>
                /\ Last(error_log').model = model_key[t]
                /\ Last(error_log').error_type = "Provider Error"
                /\ Last(error_log').details =
                       Truncate(ExcMessage(exc[t]), DETAILS_MAX)
                /\ errors_collected'[t] =
                       Append(errors_collected[t],
                              [model |-> model_key[t],
                               error |-> ExcMessage(exc[t]),
                               error_code |-> None])
                /\ pc'[t] = "next"]_vars
    /\ [](\A t \in Tasks :
            (use_fallback[t] /\ ~IsCancelled(t)) =>
                /\ pc[t] # "raised"
                /\ \A j \in 1..Len(failed[t]) :
                      /\ failed[t][j].model = FullSequence(t)[j]
                      /\ j <= fb_idx[t] =>
                            /\ errors_collected[t][j].model = failed[t][j].model
                            /\ model_key[t] = FullSequence(t)[fb_idx[t] + 1]
                /\ pc[t] = "exhausted" =>
                      Len(failed[t]) = Len(FullSequence(t))
                /\ (pc[t] \in {"done", "replied"} /\ ~reply[t].from_cache) =>
                      \/ /\ result[t].success
                         /\ result[t].model_key =
                                FullSequence(t)[Len(failed[t]) + 1]
                      \/ /\ ~result[t].success
                         /\ Len(failed[t]) = Len(FullSequence(t))
                         /\ ModelsOf(result[t].errors) = FullSequence(t))

\* the primary is not in the registry: its ValueError is logged and
\* collected; the first fallback fails with 401; the second one answers
C24_Witness ==
    /\ pc["t1"] = "replied"
    /\ use_fallback["t1"]
    /\ primary_model["t1"] = UnknownKey
    /\ Len(failed["t1"]) = 2
    /\ failed["t1"][1].how = "resolve"
    /\ failed["t1"][2].status = "401"
    /\ recorded[1].error_type = "Provider Error"
    /\ recorded[1].model = UnknownKey
    /\ errors_collected["t1"][1].model = UnknownKey
    /\ result["t1"].success
    /\ result["t1"].model_key = ModelOrder[2]

\* some collected failure has the error code
HasCode(errs, code) == \E i \in 1..Len(errs) : errs[i].error_code = code

\* the message of some collected failure has the word, in any case
HasText(errs, word) ==
    \E i \in 1..Len(errs) : ContainsLower(errs[i].error, word)

\* C25: in the result returned when every model failed, each of the four
\* hints is among the recommendations exactly when its cause is among the
\* collected failures (code 401, code 429, a message with "timeout", a
\* message with "connect"), whatever the other causes are; the generic
\* guidance is there exactly when none of the four is; the list is never
\* empty.
C25_HintsTogether ==
    \A t \in Tasks :
        (Returned(t) /\ ~result[t].success) =>
            LET errs == result[t].errors
                recs == result[t].recommendations
                none == /\ ~HasCode(errs, "401")
                        /\ ~HasCode(errs, "429")
                        /\ ~HasText(errs, "timeout")
                        /\ ~HasText(errs, "connect")
            IN  /\ InSeq(HintCredential, recs) <=> HasCode(errs, "401")
                /\ InSeq(HintRateLimit, recs) <=> HasCode(errs, "429")
                /\ InSeq(HintTimeout, recs) <=> HasText(errs, "timeout")
                /\ InSeq(HintConnection, recs) <=> HasText(errs, "connect")
                /\ InSeq(HintStatus, recs) <=> none
                /\ InSeq(HintCredits, recs) <=> none
                /\ recs # <<>>

\* three causes at once: 401, 429 on every attempt, and a 504 whose body
\* says Gateway Timeout
C25_Witness ==
    /\ Returned("t1")
    /\ ~result["t1"].success
    /\ HasCode(result["t1"].errors, "401")
    /\ HasCode(result["t1"].errors, "429")
    /\ HasCode(result["t1"].errors, "504")
    /\ result["t1"].recommendations =
           <<HintCredential, HintRateLimit, HintTimeout>>

\* no cause matched: the only failure is a request that timed out
C25_WitnessGeneric ==
    /\ Returned("t1")
    /\ ~result["t1"].success
    /\ Len(result["t1"].errors) = 1
    /\ result["t1"].errors[1].error_code = "TIMEOUT"
    /\ result["t1"].recommendations = <<HintStatus, HintCredits>>

\* the character at position i of a text
CharAt(text, i) == SubSeq(text, i, i)

\* kept is the first n characters of passed, or all of it if it has fewer
IsPrefixUpTo(kept, passed, n) ==
    /\ Len(kept) = Min(Len(passed), n)
    /\ \A i \in 1..Len(kept) : CharAt(kept, i) = CharAt(passed, i)

\* C26: the details of every entry of the log has at most 500 characters,
\* and the entry log_error appends has the first 500 characters of the
\* details it was given, or all of them if there are fewer.
C26_DetailsTruncated ==
    /\ [](\A i \in 1..Len(error_log) :
              Len(error_log[i].details) <= DETAILS_MAX)
    /\ [][Report =>
            IsPrefixUpTo(Last(error_log').details,
                         VerifyFailure(exc[Reporter]).error_msg,
                         DETAILS_MAX)]_vars

\* a message of 640 characters was reported: the entry has its first 500
C26_Witness ==
    /\ error_log # <<>>
    /\ Len(VerifyFailure(exc[Reporter]).error_msg) = 640
    /\ Len(Last(error_log).details) = DETAILS_MAX
    /\ CharAt(Last(error_log).details, 1) = "C"
    /\ CharAt(Last(error_log).details, DETAILS_MAX)
           = CharAt(VerifyFailure(exc[Reporter]).error_msg, DETAILS_MAX)
    /\ Last(error_log).details # VerifyFailure(exc[Reporter]).error_msg

\* a step of _call_api_with_retry or of the _call_api it awaits
RetryStep(t) ==
    \/ CallApi(t)
    \/ ApiReturn(t)
    \/ RetryReturn(t)
    \/ RetryHttpError(t)
    \/ RetryOtherError(t)
    \/ SleepDone(t)
    \/ LoopExhausted(t)

\* the locals of the invocation of _call_api_with_retry of request t
RetryLocals(t) == <<attempt[t], last_error[t], wait_time[t], response[t]>>

\* C27: a step of _call_api or of _call_api_with_retry, whatever the call
\* produced, leaves the diagnostics log, the provider cache and the result
\* cache as they were, and so the result, the collected failures and the
\* reply of every request; it changes nothing of another request; what it
\* changes is local to its own invocation: the loop counter, last_error and
\* the wait.
C27_RetryFrame ==
    [][\A t \in Tasks :
          RetryStep(t) =>
              /\ UNCHANGED <<error_log, snapshot, providers, constructed,
                             provider, cache, reply, result, vc_result,
                             errors_collected, fallback_models, fb_idx,
                             model_key, primary_model, enabled>>
              /\ \A u \in Tasks \ {t} :
                    /\ RetryLocals(u)' = RetryLocals(u)
                    /\ pc'[u] = pc[u]
                    /\ exc'[u] = exc[u]]_vars

\* t1 is in the third attempt of its loop after two 429, while t2 has been
\* answered: the log is empty and only the result of t2 is cached
C27_Witness ==
    /\ pc["t1"] = "calling"
    /\ attempt["t1"] = 2
    /\ last_error["t1"] = HttpError("429", "Too Many Requests")
    /\ error_log = <<>>
    /\ DOMAIN providers = {ModelOrder[1]}
    /\ pc["t2"] = "replied"
    /\ DOMAIN cache = {primary_model["t2"]}

\* the request goes through verify_with_fallback, or through verify_code of
\* a provider that get_provider returned
InCore(t) ==
    /\ pc[t] \notin {"off", "idle"}
    /\ use_fallback[t] \/ ~Unresolvable(model_key[t])

\* C28: a request has appended to the log one entry for each of its models
\* that failed, under that model's key and in the order they failed, however
\* many calls were made: the failures of attempts that are retried are not
\* logged.  (clock counts the entries appended; the request is the only
\* writer.)
C28_OneEntryPerFailedModel ==
    \A t \in Tasks :
        InCore(t) =>
            /\ clock = Len(recorded)
            /\ IF pc[t] \in {"vc_except", "orch_except"} /\ ~IsCancelled(t)
               THEN clock = Len(failed[t]) - 1
               ELSE clock = Len(failed[t])
            /\ \A j \in 1..clock : recorded[j].model = failed[t][j].model
            /\ \A i, j \in 1..Len(failed[t]) :
                  i # j => failed[t][i].model # failed[t][j].model

\* three models failed after nine calls (429 on all of them): three entries
C28_Witness ==
    /\ pc["t1"] = "replied"
    /\ ~reply["t1"].result.success
    /\ total_calls["t1"] = 3 * RETRY_ATTEMPTS
    /\ Len(failed["t1"]) = 3
    /\ clock = 3
    /\ Len(error_log) = 3
    /\ \A j \in 1..3 : error_log[j].status_code = "429"

\* the message recorded for a primary that is not in the registry or has no
\* API key
ConfigurationError(k) ==
    IF k \in ModelKeys
    THEN "ValueError: Model " \o k \o " is not enabled (missing API key)"
    ELSE "ValueError: Unknown model: " \o k

\* C29: when the primary of a request to verify_with_fallback is an unknown
\* or disabled key, no call is made for it and no provider is kept for it;
\* once its resolution has failed, the failure is the first collected
\* failure and the first log entry, under the primary's key and with the
\* message of the configuration error; the fallbacks are then tried in the
\* order of get_fallback_models, and a success of one of them is returned
\* with fallback_used and primary_model_failed the unresolvable key.
C29_UnresolvablePrimary ==
    \A t \in Tasks :
        (pc[t] \notin {"off", "idle"} /\ use_fallback[t]
            /\ ~reply[t].from_cache /\ Unresolvable(primary_model[t])) =>
            LET p == primary_model[t] IN
            /\ p \notin DOMAIN providers
            /\ fb_idx[t] = 0 =>
                  /\ total_calls[t] = 0
                  /\ inflight[t] = 0
                  /\ pc[t] \in {"resolve", "orch_except", "next", "exhausted",
                                "done", "replied"}
            /\ (fb_idx[t] > 0 \/ pc[t] \in {"next", "exhausted", "done",
                                             "replied"}) =>
                  /\ failed[t][1] =
                        [model |-> p, how |-> "resolve", status |-> None]
                  /\ errors_collected[t][1] =
                        [model |-> p, error |-> ConfigurationError(p),
                         error_code |-> None]
                  /\ recorded[1].model = p
                  /\ recorded[1].error_type = "Provider Error"
                  /\ recorded[1].details = ConfigurationError(p)
            /\ fb_idx[t] > 0 =>
                  /\ fallback_models[t] = get_fallback_models(p)
                  /\ model_key[t] = fallback_models[t][fb_idx[t]]
                  /\ model_key[t] # p
            /\ (pc[t] \in {"done", "replied"} /\ result[t].success) =>
                  /\ result[t].fallback_used
                  /\ result[t].primary_model_failed = p
                  /\ result[t].model_key = model_key[t]
                  /\ total_calls[t] >= 1
            /\ (pc[t] \in {"done", "replied"} /\ ~result[t].success) =>
                  Len(result[t].errors) = 1 + Len(get_fallback_models(p))

\* the primary has no API key; the first fallback answers
C29_Witness ==
    /\ pc["t1"] = "replied"
    /\ use_fallback["t1"]
    /\ primary_model["t1"] = ModelOrder[3]
    /\ ~enabled[ModelOrder[3]]
    /\ result["t1"].success
    /\ result["t1"].fallback_used
    /\ result["t1"].primary_model_failed = ModelOrder[3]
    /\ result["t1"].model_key = ModelOrder[1]
    /\ total_calls["t1"] = 1
    /\ Len(error_log) = 1
    /\ error_log[1].details =
           "ValueError: Model minimax is not enabled (missing API key)"

\* C30: a request writes the result cache only after use_cache was true and
\* its result is a success, and then stores that result under the requested
\* key; a request that returned a failure (of one model or of all of them)
\* or that raised has written nothing; a request with use_cache false has
\* neither read nor written the cache; nothing else changes the cache.
C30_CacheWrites ==
    /\ [](\A t \in Tasks :
            pc[t] \notin {"off", "idle"} =>
                /\ ~use_cache[t] => cache_ops[t] = <<>>
                /\ use_cache[t] =>
                      cache_ops[t] \in {<<"get">>, <<"get", "set">>}
                /\ InSeq("set", cache_ops[t]) =>
                      /\ pc[t] = "replied"
                      /\ ~reply[t].from_cache
                      /\ reply[t].result.success
                      /\ primary_model[t] \in DOMAIN cache
                /\ (pc[t] = "raised"
                        \/ (pc[t] = "replied" /\ ~reply[t].result.success)
                        \/ (pc[t] = "replied" /\ reply[t].from_cache)) =>
                      ~InSeq("set", cache_ops[t])
                /\ \A k \in DOMAIN cache : cache[k].success)
    /\ [][cache' # cache =>
            \E t \in Tasks :
                /\ Finish(t)
                /\ use_cache[t]
                /\ result[t].success
                /\ cache' = (primary_model[t] :> result[t]) @@ cache]_vars

\* t1 asked without the cache and was answered with a success; t2 asked with
\* the cache and every model failed: the cache is empty
C30_Witness ==
    /\ pc["t1"] = "replied"
    /\ ~use_cache["t1"]
    /\ reply["t1"].result.success
    /\ pc["t2"] = "replied"
    /\ use_cache["t2"]
    /\ use_fallback["t2"]
    /\ ~reply["t2"].result.success
    /\ cache_ops["t2"] = <<"get">>
    /\ cache = <<>>

\* t1 stored its success; t2 asked for the same model and got it from the
\* cache
C30_WitnessHit ==
    /\ cache_ops["t1"] = <<"get", "set">>
    /\ pc["t2"] = "replied"
    /\ reply["t2"].from_cache
    /\ reply["t2"].result = reply["t1"].result

\* C31: a result is cached under the key the request asked for, whichever
\* model answered: an entry made by a fallback names the requested key as
\* primary_model_failed and another model as model_key; a request with
\* use_cache that asks for a key that has an entry is answered at once with
\* that entry, marked from_cache, and has resolved no provider and made no
\* call.
C31_KeyedByRequested ==
    /\ [](/\ \A k \in DOMAIN cache :
                /\ cache[k].success
                /\ IF cache[k].fallback_used
                   THEN /\ cache[k].primary_model_failed = k
                        /\ cache[k].model_key # k
                        /\ Unresolvable(k) \/ k \in DOMAIN providers
                   ELSE cache[k].model_key = k
           /\ \A t \in Tasks :
                (pc[t] = "replied" /\ reply[t].from_cache) =>
                    /\ use_cache[t]
                    /\ total_calls[t] = 0
                    /\ inflight[t] = 0
                    /\ provider[t] = NoProvider
                    /\ cache_ops[t] = <<"get">>
                    /\ primary_model[t] \in DOMAIN cache
                    /\ reply[t].result = cache[primary_model[t]])
    /\ [][\A t \in Tasks :
            (pc[t] = "idle" /\ pc'[t] # "idle" /\ use_cache'[t]
                /\ primary_model'[t] \in DOMAIN cache) =>
                /\ pc'[t] = "replied"
                /\ reply'[t] = Reply(cache[primary_model'[t]], TRUE)
                /\ total_calls'[t] = 0
                /\ UNCHANGED <<cache, running, providers, error_log>>]_vars

\* t1 asked for the third model, which has no API key, and the first model
\* answered as its fallback; t2 asked for the third model too and got that
\* result from the cache, without a call
C31_Witness ==
    /\ pc["t1"] = "replied"
    /\ primary_model["t1"] = ModelOrder[3]
    /\ reply["t1"].result.fallback_used
    /\ reply["t1"].result.model_key = ModelOrder[1]
    /\ cache_ops["t1"] = <<"get", "set">>
    /\ pc["t2"] = "replied"
    /\ primary_model["t2"] = ModelOrder[3]
    /\ reply["t2"].from_cache
    /\ reply["t2"].result = reply["t1"].result
    /\ reply["t2"].result.primary_model_failed = ModelOrder[3]
    /\ total_calls["t2"] = 0
    /\ DOMAIN cache = {ModelOrder[3]}

\* t and u hold the same ModelProvider object
SameProvider(t, u) == provider[t] # NoProvider /\ provider[t] = provider[u]

\* what the retry loop of request t has counted and kept
LoopState(t) ==
    <<attempt[t], calls[t], last_error[t], wait_time[t], sleeps[t],
      outcomes[t]>>

\* C32: the retry loop counts the calls of its own invocation, also when
\* another request uses the same ModelProvider: the counter is the number
\* of calls the invocation has finished, it never passes RETRY_ATTEMPTS, a
\* loop that only saw retryable failures gives up after exactly
\* RETRY_ATTEMPTS calls of its own, and no step of one request changes the
\* counter, the calls, the last error or the waits of another.
C32_BudgetPerInvocation ==
    /\ [](\A t \in Tasks :
            /\ attempt[t] <= RETRY_ATTEMPTS
            /\ calls[t] <= RETRY_ATTEMPTS
            /\ pc[t] = "attempt" => calls[t] = attempt[t]
            /\ pc[t] \in {"calling", "returned", "sleeping"} =>
                  calls[t] = attempt[t] + 1
            /\ \A s \in RETRY_STATUS_CODES :
                  (AllFailedWith(t, s) /\ GaveUp(t)) =>
                      calls[t] = RETRY_ATTEMPTS)
    /\ [][\A t \in Tasks : \A u \in Tasks \ {t} :
            Step(t) => LoopState(u)' = LoopState(u)]_vars

\* both requests use the one provider of the first model; t1 has used up
\* its three attempts on 429 answers while t2 is in the sleep after its
\* first
C32_Witness ==
    /\ SameProvider("t1", "t2")
    /\ constructed = 1
    /\ pc["t1"] = "vc_except"
    /\ AllFailedWith("t1", "429")
    /\ calls["t1"] = RETRY_ATTEMPTS
    /\ pc["t2"] = "sleeping"
    /\ attempt["t2"] = 0
    /\ calls["t2"] = 1

\* and the second request goes on to use its own three attempts
C32_WitnessBoth ==
    /\ SameProvider("t1", "t2")
    /\ pc["t1"] = "replied"
    /\ pc["t2"] = "vc_except"
    /\ AllFailedWith("t1", "429")
    /\ AllFailedWith("t2", "429")
    /\ calls["t1"] = RETRY_ATTEMPTS
    /\ calls["t2"] = RETRY_ATTEMPTS

=============================================================================
